---- MODULE Spec2Model ----
(***************************************************************************)
(* Model of pkg/cloudprovider/huaweicloud/huaweicloud.go:                  *)
(*  - the retry loops updateServiceStatus and updateServiceMarkIfNeeded    *)
(*    that persist the kubernetes.io/elb.mark annotation on a Service      *)
(*    through the API server under optimistic concurrency (Spec, SpecConc);*)
(*  - the four load balancer operations of HWSCloud, which route a Service *)
(*    to a backend by its class annotation, and the annotation parsers     *)
(*    getLBAlgorithm and getHealthCheckFlag (SpecLB);                      *)
(*  - the secret cache filled by the informer's event handlers (SpecCache);*)
(*  - Secret.DecodeBase64 (SpecSecret).                                    *)
(*                                                                         *)
(* In the retry loops a string is a sequence of one-character strings, so  *)
(* that strconv.Atoi and fmt.Sprintf("%d") are computed character by       *)
(* character; a field of a Secret is a sequence of bytes, so that base64   *)
(* is computed.  An annotation map is a function from the keys present to  *)
(* their values.                                                           *)
(***************************************************************************)
EXTENDS Integers, Sequences, FiniteSets, TLC

\* ------------------------------------------------------------------ bounds
\* invocations each of the two concurrent workers may start
MaxCalls == 2
\* invocations the worker of the sequential specification may start
MaxSeqCalls == 1
\* writes by other clients of the API server
MaxExt == 1
\* informer events and cache reads handled after the initial sync
MaxEvents == 3
\* calls of DecodeBase64 on one Secret record
MaxDecodes == 3
\* invocations of updateServiceStatus in a run of one controller
MaxRunStatus == 5
\* invocations of updateServiceMarkIfNeeded in a run of one controller
MaxRunMark == 2

\* --------------------------------------------------------------- constants
MaxRetry == 3
ELBMarkAnnotation == "kubernetes.io/elb.mark"
\* any annotation of the Service other than the mark
ELBClassAnnotation == "kubernetes.io/elb.class"

Workers == {"w1", "w2"}
\* the one worker of the sequential specification
SeqWorkers == {"w1"}

\* namespace/name of the Service under reconciliation
SvcKey == "default/svc"
\* namespace/name of the zero value &v1.Service{}
EmptyKey == "/"

\* --------------------------------------------------- strconv.Atoi, "%d"
Digits == <<"0", "1", "2", "3", "4", "5", "6", "7", "8", "9">>

IsDigit(c) == \E d \in 1..10 : Digits[d] = c

DigitVal(c) == (CHOOSE d \in 1..10 : Digits[d] = c) - 1

RECURSIVE DecVal(_)
DecVal(s) == IF Len(s) = 0 THEN 0
             ELSE 10 * DecVal(SubSeq(s, 1, Len(s) - 1)) + DigitVal(s[Len(s)])

\* strconv.Atoi: an optional sign, then one or more decimal digits; anything
\* else is an error.  (Strings of the model are short, so the out-of-range
\* error of Atoi is never met.)
Atoi(s) ==
    LET signed == Len(s) > 0 /\ s[1] \in {"+", "-"}
        body   == IF signed THEN Tail(s) ELSE s
    IN  IF Len(body) = 0 \/ \E k \in 1..Len(body) : ~IsDigit(body[k])
        THEN [err |-> TRUE, n |-> 0]
        ELSE [err |-> FALSE,
              n   |-> IF signed /\ s[1] = "-" THEN 0 - DecVal(body) ELSE DecVal(body)]

RECURSIVE Itoa(_)
\* fmt.Sprintf("%d", n)
Itoa(n) == IF n < 0 THEN <<"-">> \o Itoa(0 - n)
           ELSE IF n < 10 THEN <<Digits[n + 1]>>
           ELSE Itoa(n \div 10) \o <<Digits[(n % 10) + 1]>>

\* ------------------------------------------------------- annotation maps
NoAnnotations == [k \in {} |-> <<>>]

SetAnnotation(ann, key, val) ==
    [k \in (DOMAIN ann) \cup {key} |-> IF k = key THEN val ELSE ann[k]]

DeleteAnnotation(ann, key) == [k \in (DOMAIN ann) \ {key} |-> ann[k]]

\* values another client may store in the mark annotation
MarkValues == { <<>>, <<"-", "1">>, <<"+", "2">>, <<"0", "3">>, <<"x">> }

\* values another client may store in the class annotation
ClassValues == { <<"u">> }

\* ------------------------------------------------------------------ state
VARIABLES
    store,      \* the Service held by the API server: exists, ann, rv
    strict,     \* the API server rejects an Update whose resourceVersion is stale
    pc,         \* per worker: "idle", "loop", "get", "panic"
    op,         \* per worker: "status" or "mark" (the function running or last run)
    tryAgain,   \* per worker: the tryAgain parameter of updateServiceMarkIfNeeded
    service,    \* per worker: the local variable service
    arg,        \* per worker: the object the caller passed
    i,          \* per worker: the loop counter
    log,        \* per worker: calls made on kubeClient and eventRecorder by the invocation
    calls,      \* per worker: invocations started
    ext,        \* writes made by other clients
    logging     \* whether log and arg are kept (they are read by no action)

\* the state of the two retry loops
retryVars == <<store, strict, pc, op, tryAgain, service, arg, i, log, calls, ext, logging>>

VARIABLES
    lbService,       \* annotations of the Service handed to a load balancer operation
    LBVersion,       \* what getLoadBalancerVersion returned to the last operation
    lbCalls,         \* calls the last load balancer operation made on the backends
    lbResult,        \* what the last load balancer operation returned
    algorithm,       \* what the last call of getLBAlgorithm returned
    healthFlag       \* what the last call of getHealthCheckFlag returned

\* the state of the load balancer operations and annotation parsers
lbVars == <<lbService, LBVersion, lbCalls, lbResult, algorithm, healthFlag>>

VARIABLES
    lrucache,        \* the secret cache, least recently used entry first
    event,           \* the informer or backend call handled last
    crashed,         \* a handler panicked
    globalConfig,    \* the package-level variable globalConfig
    events           \* informer events and cache reads handled

\* the state of the secret cache
cacheVars == <<lrucache, event, crashed, globalConfig, events>>

VARIABLES
    secret,          \* a Secret record: Credential, AccessKey, SecretKey, base64Decoded
    decodeResult,    \* how the last call of DecodeBase64 ended
    decodeCalls,     \* calls of DecodeBase64 made on the record
    succeeded        \* a call of DecodeBase64 on the record has returned nil

\* the state of the Secret record
secretVars == <<secret, decodeResult, decodeCalls, succeeded>>

VARIABLES
    persistAutoCreate,  \* what the last call of GetPersistAutoCreate returned
    node,               \* a *v1.Node: Status.Conditions and Spec.Unschedulable
    nodeHealth,         \* what the last call of CheckNodeHealth returned
    pod,                \* a *v1.Pod: Status.Phase, DeletionTimestamp, Status.Conditions
    podActive           \* what the last call of IsPodActive returned

\* the state of the predicates on Services, Nodes and Pods
predVars == <<persistAutoCreate, node, nodeHealth, pod, podActive>>

vars == <<retryVars, lbVars, cacheVars, secretVars, predVars>>

\* no predicate has been evaluated
PredIdle ==
    /\ persistAutoCreate = [applied |-> FALSE, ret |-> FALSE]
    /\ node = [Conditions |-> <<>>, Unschedulable |-> FALSE]
    /\ nodeHealth = [applied |-> FALSE, status |-> FALSE, err |-> FALSE]
    /\ pod = [Phase |-> "Pending", Deleting |-> FALSE, Conditions |-> <<>>]
    /\ podActive = [applied |-> FALSE, ret |-> FALSE]

\* the package-level globalConfig holds no configuration
NilPointer == "nil"

\* an informer event or a cache read: its kind, what it carries, the Secret
\* it names and, of an update, the Data of the old object
Event(kind, shape, s, oldData) ==
    [kind |-> kind, shape |-> shape, ns |-> s.ns, name |-> s.name,
     data |-> s.data, oldData |-> oldData]

NoEvent == Event("none", "none", [ns |-> "", name |-> "", data |-> ""], "")

\* the cache is empty and no event was handled
CacheIdle ==
    /\ lrucache = <<>>
    /\ event = NoEvent
    /\ crashed = FALSE
    /\ globalConfig = NilPointer
    /\ events = 0

\* no load balancer operation and no parser has run
LBIdle ==
    /\ lbService = NoAnnotations
    /\ LBVersion = [version |-> 0, err |-> FALSE]
    /\ lbCalls = <<>>
    /\ lbResult = [op |-> "none", status |-> "nil", exists |-> FALSE, err |-> "nil"]
    /\ algorithm = [applied |-> FALSE, ret |-> [alg |-> "", err |-> FALSE]]
    /\ healthFlag = [applied |-> FALSE, ret |-> [flag |-> FALSE, err |-> FALSE]]

\* no Secret record is being decoded
SecretIdle ==
    /\ secret = [Credential |-> <<>>, AccessKey |-> <<>>, SecretKey |-> <<>>,
                 base64Decoded |-> FALSE]
    /\ decodeResult = "none"
    /\ decodeCalls = 0
    /\ succeeded = FALSE

\* the resourceVersion "" of an object that was not read from the server
NoVersion == 0 - 1

\* the zero value &v1.Service{} that the typed client returns with an error
EmptyService == [key |-> EmptyKey, ann |-> NoAnnotations, rv |-> NoVersion]

Snapshot == [key |-> SvcKey, ann |-> store.ann, rv |-> store.rv]

Init ==
    /\ store = [exists |-> TRUE, ann |-> NoAnnotations, rv |-> 0]
    /\ strict \in BOOLEAN
    /\ pc = [w \in Workers |-> "idle"]
    /\ op = [w \in Workers |-> "status"]
    /\ tryAgain = [w \in Workers |-> FALSE]
    /\ service = [w \in Workers |-> EmptyService]
    /\ arg = [w \in Workers |-> EmptyService]
    /\ i = [w \in Workers |-> 0]
    /\ log = [w \in Workers |-> <<>>]
    /\ calls = [w \in Workers |-> 0]
    /\ ext = 0
    /\ logging = TRUE
    /\ LBIdle
    /\ CacheIdle
    /\ SecretIdle
    /\ PredIdle

\* the record of a call is appended to the log of the invocation
Logged(w, entry) ==
    log' = [log EXCEPT ![w] = IF logging THEN Append(@, entry) ELSE @]

\* ------------------------------------------------------------ API server
\* The answers kubeClient.Services(ns).Update(obj) can give.  The server
\* itself answers not-found for a Service that is gone, conflict for a stale
\* resourceVersion (when it checks versions; an object without a version is
\* an unconditional update) and success otherwise; a request for the
\* zero-value object names no Service and cannot succeed; any request may
\* fail with any of the three kinds of error.
UpdateAnswers(obj) ==
    { IF obj.key # SvcKey THEN "error"
      ELSE IF ~store.exists THEN "notfound"
      ELSE IF strict /\ obj.rv # NoVersion /\ obj.rv # store.rv THEN "conflict"
      ELSE "ok" } \cup {"conflict", "notfound", "error"}

\* The answers kubeClient.Services(ns).Get(name) can give.
GetAnswers(key) ==
    (IF key = SvcKey /\ store.exists THEN {"ok"} ELSE {}) \cup {"error"}

LogUpdate(obj, seen, ans) ==
    [call |-> "Update", key |-> obj.key, ann |-> obj.ann, seen |-> seen, ans |-> ans]

LogGet(key, ann, ans) ==
    [call |-> "Get", key |-> key, ann |-> ann, seen |-> NoAnnotations, ans |-> ans]

\* sendEvent: eventRecorder.Event(service, v1.EventTypeWarning, title, ...)
sendEvent(title, svc) ==
    [call |-> "Warning", key |-> svc.key, ann |-> NoAnnotations, seen |-> svc.ann, ans |-> title]

\* ------------------------------------------------------------ the callers
\* updateServiceStatus(kubeClient, eventRecorder, service) is entered with
\* the Service as its caller last saw it.
CallUpdateServiceStatus(w, budget) ==
    /\ pc[w] = "idle"
    /\ calls[w] < budget
    /\ calls' = [calls EXCEPT ![w] = @ + 1]
    /\ op' = [op EXCEPT ![w] = "status"]
    /\ tryAgain' = [tryAgain EXCEPT ![w] = FALSE]
    /\ service' = [service EXCEPT ![w] = Snapshot]
    /\ arg' = [arg EXCEPT ![w] = IF logging THEN Snapshot ELSE @]
    /\ i' = [i EXCEPT ![w] = 0]
    /\ log' = [log EXCEPT ![w] = <<>>]
    /\ pc' = [pc EXCEPT ![w] = "loop"]
    /\ UNCHANGED <<store, strict, ext, logging, lbVars, cacheVars, secretVars, predVars>>

\* updateServiceMarkIfNeeded(kubeClient, service, tryAgain) is entered.
CallUpdateServiceMarkIfNeeded(w, budget) ==
    /\ pc[w] = "idle"
    /\ calls[w] < budget
    /\ calls' = [calls EXCEPT ![w] = @ + 1]
    /\ op' = [op EXCEPT ![w] = "mark"]
    /\ \E t \in BOOLEAN : tryAgain' = [tryAgain EXCEPT ![w] = t]
    /\ service' = [service EXCEPT ![w] = Snapshot]
    /\ arg' = [arg EXCEPT ![w] = IF logging THEN Snapshot ELSE @]
    /\ i' = [i EXCEPT ![w] = 0]
    /\ log' = [log EXCEPT ![w] = <<>>]
    /\ pc' = [pc EXCEPT ![w] = "loop"]
    /\ UNCHANGED <<store, strict, ext, logging, lbVars, cacheVars, secretVars, predVars>>

\* ---------------------------------------------------------- the loop body
\* Continue with the test written i <= MaxRetry
Continue_OneMore(w) ==
    /\ i' = [i EXCEPT ![w] = @ + 1]
    /\ pc' = [pc EXCEPT ![w] = IF i[w] + 1 <= MaxRetry THEN "loop" ELSE "idle"]

\* the i++ of the for statement and its test i < MaxRetry
Continue(w) ==
    /\ i' = [i EXCEPT ![w] = @ + 1]
    /\ pc' = [pc EXCEPT ![w] = IF i[w] + 1 < MaxRetry THEN "loop" ELSE "idle"]

Return(w) ==
    /\ pc' = [pc EXCEPT ![w] = "idle"]
    /\ UNCHANGED i

\* Update with the IsNotFound test left out: not-found is retried like any
\* other error
Update_NotFoundRetried(w, toUpdate) ==
    \E ans \in UpdateAnswers(toUpdate) :
        /\ Logged(w, LogUpdate(toUpdate, service[w].ann, ans))
        /\ store' = IF ans = "ok"
                    THEN [store EXCEPT !.ann = toUpdate.ann, !.rv = @ + 1]
                    ELSE store
        /\ IF ans = "ok" THEN Return(w)
           ELSE IF ans = "conflict" THEN pc' = [pc EXCEPT ![w] = "get"] /\ UNCHANGED i
           ELSE Continue(w)

\* Update with a Get after every error, not only after a conflict
Update_GetAfterAnyError(w, toUpdate) ==
    \E ans \in UpdateAnswers(toUpdate) :
        /\ Logged(w, LogUpdate(toUpdate, service[w].ann, ans))
        /\ store' = IF ans = "ok"
                    THEN [store EXCEPT !.ann = toUpdate.ann, !.rv = @ + 1]
                    ELSE store
        /\ IF ans = "ok" \/ ans = "notfound" THEN Return(w)
           ELSE pc' = [pc EXCEPT ![w] = "get"] /\ UNCHANGED i

\* kubeClient.Services(service.Namespace).Update(toUpdate) and the handling
\* of its error, up to the Get
Update(w, toUpdate) ==
    \E ans \in UpdateAnswers(toUpdate) :
        /\ Logged(w, LogUpdate(toUpdate, service[w].ann, ans))
        /\ store' = IF ans = "ok"
                    THEN [store EXCEPT !.ann = toUpdate.ann, !.rv = @ + 1]
                    ELSE store
        /\ IF ans = "ok" \/ ans = "notfound" THEN Return(w)
           ELSE IF ans = "conflict" THEN pc' = [pc EXCEPT ![w] = "get"] /\ UNCHANGED i
           ELSE Continue(w)

\* NextMark with the ceiling tested as retry > MaxRetry
NextMark_AboveCeiling(ann) ==
    IF ELBMarkAnnotation \notin DOMAIN ann
    THEN [stop |-> FALSE, mark |-> <<"1">>]
    ELSE LET retry == Atoi(ann[ELBMarkAnnotation])
         IN  IF retry.err THEN [stop |-> FALSE, mark |-> <<"1">>]
             ELSE IF retry.n > MaxRetry THEN [stop |-> TRUE, mark |-> ann[ELBMarkAnnotation]]
             ELSE [stop |-> FALSE, mark |-> Itoa(retry.n + 1)]

\* NextMark with a missing mark initialised to "0"
NextMark_StartsAtZero(ann) ==
    IF ELBMarkAnnotation \notin DOMAIN ann
    THEN [stop |-> FALSE, mark |-> <<"0">>]
    ELSE LET retry == Atoi(ann[ELBMarkAnnotation])
         IN  IF retry.err THEN [stop |-> FALSE, mark |-> <<"1">>]
             ELSE IF retry.n >= MaxRetry THEN [stop |-> TRUE, mark |-> ann[ELBMarkAnnotation]]
             ELSE [stop |-> FALSE, mark |-> Itoa(retry.n + 1)]

\* NextMark without the retry += 1
NextMark_NoIncrement(ann) ==
    IF ELBMarkAnnotation \notin DOMAIN ann
    THEN [stop |-> FALSE, mark |-> <<"1">>]
    ELSE LET retry == Atoi(ann[ELBMarkAnnotation])
         IN  IF retry.err THEN [stop |-> FALSE, mark |-> <<"1">>]
             ELSE IF retry.n >= MaxRetry THEN [stop |-> TRUE, mark |-> ann[ELBMarkAnnotation]]
             ELSE [stop |-> FALSE, mark |-> Itoa(retry.n)]

\* The mark updateServiceStatus derives from the annotations it reads:
\* stop is the retry >= MaxRetry branch.
NextMark(ann) ==
    IF ELBMarkAnnotation \notin DOMAIN ann
    THEN [stop |-> FALSE, mark |-> <<"1">>]
    ELSE LET retry == Atoi(ann[ELBMarkAnnotation])
         IN  IF retry.err THEN [stop |-> FALSE, mark |-> <<"1">>]
             ELSE IF retry.n >= MaxRetry THEN [stop |-> TRUE, mark |-> ann[ELBMarkAnnotation]]
             ELSE [stop |-> FALSE, mark |-> Itoa(retry.n + 1)]

\* updateServiceStatus with toUpdate := service in place of the DeepCopy:
\* the mark is written into the object service points to, which is the
\* caller's until a Get replaces it
updateServiceStatus_NoDeepCopy(w) ==
    /\ pc[w] = "loop"
    /\ op[w] = "status"
    /\ LET toUpdate == service[w]
           next     == NextMark(toUpdate.ann)
           written  == [toUpdate EXCEPT !.ann = SetAnnotation(@, ELBMarkAnnotation, next.mark)]
       IN  IF next.stop
           THEN /\ Logged(w, sendEvent("CreateLoadBalancerFailed", service[w]))
                /\ Return(w)
                /\ UNCHANGED <<store, service, arg>>
           ELSE /\ Update(w, written)
                /\ service' = [service EXCEPT ![w] = written]
                /\ arg' = [arg EXCEPT ![w] = IF \A k \in 1..Len(log[w]) : log[w][k].call # "Get"
                                              THEN written ELSE @]
    /\ UNCHANGED <<strict, op, tryAgain, calls, ext, logging, lbVars, cacheVars, secretVars, predVars>>

\* updateServiceStatus sending its copy without the resourceVersion it read
updateServiceStatus_DropsVersion(w) ==
    /\ pc[w] = "loop"
    /\ op[w] = "status"
    /\ LET toUpdate == [service[w] EXCEPT !.rv = NoVersion]
           next     == NextMark(toUpdate.ann)
       IN  IF next.stop
           THEN /\ Logged(w, sendEvent("CreateLoadBalancerFailed", service[w]))
                /\ Return(w)
                /\ UNCHANGED store
           ELSE Update(w, [toUpdate EXCEPT !.ann = SetAnnotation(@, ELBMarkAnnotation, next.mark)])
    /\ UNCHANGED <<strict, op, tryAgain, service, arg, calls, ext, logging, lbVars, cacheVars, secretVars, predVars>>

\* one iteration of the loop of updateServiceStatus, up to the Get
updateServiceStatus(w) ==
    /\ pc[w] = "loop"
    /\ op[w] = "status"
    /\ LET toUpdate == service[w]
           next     == NextMark(toUpdate.ann)
       IN  IF next.stop
           THEN /\ Logged(w, sendEvent("CreateLoadBalancerFailed", service[w]))
                /\ Return(w)
                /\ UNCHANGED store
           ELSE Update(w, [toUpdate EXCEPT !.ann = SetAnnotation(@, ELBMarkAnnotation, next.mark)])
    /\ UNCHANGED <<strict, op, tryAgain, service, arg, calls, ext, logging, lbVars, cacheVars, secretVars, predVars>>

\* ClearMark that resets the mark to "0" where the code deletes it
ClearMark_ResetsToZero(ann, again) ==
    IF ELBMarkAnnotation \notin DOMAIN ann
    THEN IF ~again THEN [skip |-> TRUE, ann |-> ann]
         ELSE [skip |-> FALSE, ann |-> SetAnnotation(ann, ELBMarkAnnotation, <<"0">>)]
    ELSE [skip |-> FALSE, ann |-> SetAnnotation(ann, ELBMarkAnnotation, <<"0">>)]

\* The annotations updateServiceMarkIfNeeded writes: skip is the return
\* taken when there is no mark and tryAgain is false.
ClearMark(ann, again) ==
    IF ELBMarkAnnotation \notin DOMAIN ann
    THEN IF ~again THEN [skip |-> TRUE, ann |-> ann]
         ELSE [skip |-> FALSE, ann |-> SetAnnotation(ann, ELBMarkAnnotation, <<"0">>)]
    ELSE [skip |-> FALSE, ann |-> DeleteAnnotation(ann, ELBMarkAnnotation)]

\* one iteration of the loop of updateServiceMarkIfNeeded, up to the Get
updateServiceMarkIfNeeded(w) ==
    /\ pc[w] = "loop"
    /\ op[w] = "mark"
    /\ LET toUpdate == service[w]
           next     == ClearMark(toUpdate.ann, tryAgain[w])
       IN  IF next.skip
           THEN Return(w) /\ UNCHANGED <<store, log>>
           ELSE Update(w, [toUpdate EXCEPT !.ann = next.ann])
    /\ UNCHANGED <<strict, op, tryAgain, service, arg, calls, ext, logging, lbVars, cacheVars, secretVars, predVars>>

\* GetService with the fetched Service dropped: the loop goes on with the
\* object it had
GetService_KeepsOld(w) ==
    /\ pc[w] = "get"
    /\ \E ans \in GetAnswers(service[w].key) :
        IF ans = "ok"
        THEN /\ UNCHANGED service
             /\ Logged(w, LogGet(service[w].key, store.ann, "ok"))
             /\ Continue(w)
        ELSE /\ Logged(w, LogGet(service[w].key, NoAnnotations, "error"))
             /\ \/ service' = [service EXCEPT ![w] = EmptyService] /\ Continue(w)
                \/ pc' = [pc EXCEPT ![w] = "panic"] /\ UNCHANGED <<service, i>>
    /\ UNCHANGED <<store, strict, op, tryAgain, arg, calls, ext, logging, lbVars, cacheVars, secretVars, predVars>>

\* After a conflict: service, err = kubeClient.Services(ns).Get(name).  On
\* an error the typed client hands back the zero-value Service, which the
\* loop goes on with; a client that hands back nil makes the Warningf that
\* follows dereference nil.
GetService(w) ==
    /\ pc[w] = "get"
    /\ \E ans \in GetAnswers(service[w].key) :
        IF ans = "ok"
        THEN /\ service' = [service EXCEPT ![w] = Snapshot]
             /\ Logged(w, LogGet(service[w].key, store.ann, "ok"))
             /\ Continue(w)
        ELSE /\ Logged(w, LogGet(service[w].key, NoAnnotations, "error"))
             /\ \/ service' = [service EXCEPT ![w] = EmptyService] /\ Continue(w)
                \/ pc' = [pc EXCEPT ![w] = "panic"] /\ UNCHANGED <<service, i>>
    /\ UNCHANGED <<store, strict, op, tryAgain, arg, calls, ext, logging, lbVars, cacheVars, secretVars, predVars>>

\* ------------------------------------------------------- other clients
\* the annotation maps another client may store
AnnValues ==
    LET marks   == { NoAnnotations } \cup
                   { SetAnnotation(NoAnnotations, ELBMarkAnnotation, v) : v \in MarkValues }
    IN  marks \cup { SetAnnotation(m, ELBClassAnnotation, c) : m \in marks, c \in ClassValues }

\* another client updates the annotations of the Service
ExtUpdate ==
    /\ store.exists
    /\ ext < MaxExt
    /\ ext' = ext + 1
    /\ \E ann \in AnnValues \ {store.ann} :
          store' = [store EXCEPT !.ann = ann, !.rv = @ + 1]
    /\ UNCHANGED <<strict, pc, op, tryAgain, service, arg, i, log, calls, logging, lbVars, cacheVars, secretVars, predVars>>

\* the Service is deleted
ExtDelete ==
    /\ store.exists
    /\ store' = [store EXCEPT !.exists = FALSE]
    /\ UNCHANGED <<strict, pc, op, tryAgain, service, arg, i, log, calls, ext, logging, lbVars, cacheVars, secretVars, predVars>>

\* ------------------------------------------- load balancer versions
VersionNotNeedLB == 0
VersionELB == 1
VersionALB == 2
VersionPLB == 3
VersionNAT == 4

ELBLBAlgorithm == "kubernetes.io/elb.lb-algorithm"
ELBHealthCheckFlag == "kubernetes.io/elb.health-check-flag"

ELBAlgorithmNone == ""
ELBAlgorithmRoundRobin == "ROUND_ROBIN"
ELBAlgorithmLeastConnections == "LEAST_CONNECTIONS"
ELBAlgorithmSourceIP == "SOURCE_IP"

ELBAlgorithmRR == "ROUND_ROBIN"
ELBAlgorithmLC == "LEAST_CONNECTIONS"
ELBAlgorithmSRC == "SOURCE_IP"

\* service.Annotations[key]: the value, or "" when the key is absent
Annotation(ann, key) == IF key \in DOMAIN ann THEN ann[key] ELSE ""

\* values of the class annotation a Service may carry
LBClassValues ==
    {"elasticity", "union", "", "performance", "dnat", "bogus", "Elasticity", "DNAT", "0"}

\* values of the algorithm annotation a Service may carry
LBAlgorithmValues ==
    {"ROUND_ROBIN", "", "LEAST_CONNECTIONS", "SOURCE_IP", "bogus", "round_robin"}

\* values of the health check flag annotation a Service may carry
LBHealthFlagValues == {"on", "", "off", "bogus", "ON", "true"}

\* the annotation maps with the key absent or set to one of the values
WithAnnotation(maps, key, values) ==
    maps \cup { SetAnnotation(m, key, v) : m \in maps, v \in values }

\* the Services handed to the load balancer operations
LBServices ==
    WithAnnotation(
        WithAnnotation(
            WithAnnotation({NoAnnotations}, ELBClassAnnotation, LBClassValues),
            ELBLBAlgorithm, LBAlgorithmValues),
        ELBHealthCheckFlag, LBHealthFlagValues)

\* the switch of getLoadBalancerVersion with "performance" sent to ALB
getLoadBalancerVersion_PLBIsALB(svc) ==
    LET class == Annotation(svc, ELBClassAnnotation)
    IN  CASE class = "elasticity"  -> [version |-> VersionELB, err |-> FALSE]
          [] class \in {"union", "", "performance"} -> [version |-> VersionALB, err |-> FALSE]
          [] class = "dnat"        -> [version |-> VersionNAT, err |-> FALSE]
          [] OTHER                 -> [version |-> 0, err |-> TRUE]

getLoadBalancerVersion(svc) ==
    LET class == Annotation(svc, ELBClassAnnotation)
    IN  CASE class = "elasticity"  -> [version |-> VersionELB, err |-> FALSE]
          [] class \in {"union", ""} -> [version |-> VersionALB, err |-> FALSE]
          [] class = "performance" -> [version |-> VersionPLB, err |-> FALSE]
          [] class = "dnat"        -> [version |-> VersionNAT, err |-> FALSE]
          [] OTHER                 -> [version |-> 0, err |-> TRUE]

\* hws.providers as NewHWSCloud binds it: no backend for VersionPLB
providers ==
    [v \in {VersionELB, VersionALB, VersionNAT} |->
        CASE v = VersionELB -> "ELBCloud"
          [] v = VersionALB -> "ALBCloud"
          [] v = VersionNAT -> "NATCloud"]

\* what a load balancer operation returns: the status (of Get and Ensure),
\* exists (of Get) and the error
Returned(name, status, exists, err) ==
    [op |-> name, status |-> status, exists |-> exists, err |-> err]

\* the error of getLoadBalancerVersion
VersionUnknown == "Load balancer version unknown"

\* what provider.GetLoadBalancer may return
BackendGetResults ==
    { [status |-> "status", exists |-> TRUE, err |-> "nil"],
      [status |-> "nil", exists |-> FALSE, err |-> "nil"],
      [status |-> "nil", exists |-> FALSE, err |-> "backend error"] }

\* what provider.EnsureLoadBalancer may return
BackendEnsureResults ==
    { [status |-> "status", exists |-> FALSE, err |-> "nil"],
      [status |-> "nil", exists |-> FALSE, err |-> "backend error"] }

\* what provider.UpdateLoadBalancer and provider.EnsureLoadBalancerDeleted
\* may return
BackendErrorResults ==
    { [status |-> "nil", exists |-> FALSE, err |-> "nil"],
      [status |-> "nil", exists |-> FALSE, err |-> "backend error"] }

\* the call of operation name on the backend bound for version, answering ret
BackendCall(version, name, ret) ==
    [backend |-> providers[version], op |-> name, ret |-> ret]

\* GetLoadBalancer failing when no backend is bound
GetLoadBalancer_UnboundFails ==
    LET v == getLoadBalancerVersion(lbService)
    IN  /\ LBVersion' = v
        /\ IF v.err
           THEN /\ lbCalls' = <<>>
                /\ lbResult' = Returned("GetLoadBalancer", "nil", FALSE, VersionUnknown)
           ELSE IF v.version \notin DOMAIN providers
           THEN /\ lbCalls' = <<>>
                /\ lbResult' = Returned("GetLoadBalancer", "nil", FALSE, VersionUnknown)
           ELSE \E r \in BackendGetResults :
                   /\ lbCalls' = <<BackendCall(v.version, "GetLoadBalancer", r)>>
                   /\ lbResult' = Returned("GetLoadBalancer", r.status, r.exists, r.err)
        /\ UNCHANGED <<lbService, algorithm, healthFlag, retryVars, cacheVars, secretVars, predVars>>

GetLoadBalancer ==
    LET v == getLoadBalancerVersion(lbService)
    IN  /\ LBVersion' = v
        /\ IF v.err
           THEN /\ lbCalls' = <<>>
                /\ lbResult' = Returned("GetLoadBalancer", "nil", FALSE, VersionUnknown)
           ELSE IF v.version \notin DOMAIN providers
           THEN /\ lbCalls' = <<>>
                /\ lbResult' = Returned("GetLoadBalancer", "nil", FALSE, "nil")
           ELSE \E r \in BackendGetResults :
                   /\ lbCalls' = <<BackendCall(v.version, "GetLoadBalancer", r)>>
                   /\ lbResult' = Returned("GetLoadBalancer", r.status, r.exists, r.err)
        /\ UNCHANGED <<lbService, algorithm, healthFlag, retryVars, cacheVars, secretVars, predVars>>

\* EnsureLoadBalancer dropping the error of the backend
EnsureLoadBalancer_DropsError ==
    LET v == getLoadBalancerVersion(lbService)
    IN  /\ LBVersion' = v
        /\ IF v.err
           THEN /\ lbCalls' = <<>>
                /\ lbResult' = Returned("EnsureLoadBalancer", "nil", FALSE, VersionUnknown)
           ELSE IF v.version \notin DOMAIN providers
           THEN /\ lbCalls' = <<>>
                /\ lbResult' = Returned("EnsureLoadBalancer", "nil", FALSE, "nil")
           ELSE \E r \in BackendEnsureResults :
                   /\ lbCalls' = <<BackendCall(v.version, "EnsureLoadBalancer", r)>>
                   /\ lbResult' = Returned("EnsureLoadBalancer", r.status, FALSE, "nil")
        /\ UNCHANGED <<lbService, algorithm, healthFlag, retryVars, cacheVars, secretVars, predVars>>

EnsureLoadBalancer ==
    LET v == getLoadBalancerVersion(lbService)
    IN  /\ LBVersion' = v
        /\ IF v.err
           THEN /\ lbCalls' = <<>>
                /\ lbResult' = Returned("EnsureLoadBalancer", "nil", FALSE, VersionUnknown)
           ELSE IF v.version \notin DOMAIN providers
           THEN /\ lbCalls' = <<>>
                /\ lbResult' = Returned("EnsureLoadBalancer", "nil", FALSE, "nil")
           ELSE \E r \in BackendEnsureResults :
                   /\ lbCalls' = <<BackendCall(v.version, "EnsureLoadBalancer", r)>>
                   /\ lbResult' = Returned("EnsureLoadBalancer", r.status, FALSE, r.err)
        /\ UNCHANGED <<lbService, algorithm, healthFlag, retryVars, cacheVars, secretVars, predVars>>

UpdateLoadBalancer ==
    LET v == getLoadBalancerVersion(lbService)
    IN  /\ LBVersion' = v
        /\ IF v.err
           THEN /\ lbCalls' = <<>>
                /\ lbResult' = Returned("UpdateLoadBalancer", "nil", FALSE, VersionUnknown)
           ELSE IF v.version \notin DOMAIN providers
           THEN /\ lbCalls' = <<>>
                /\ lbResult' = Returned("UpdateLoadBalancer", "nil", FALSE, "nil")
           ELSE \E r \in BackendErrorResults :
                   /\ lbCalls' = <<BackendCall(v.version, "UpdateLoadBalancer", r)>>
                   /\ lbResult' = Returned("UpdateLoadBalancer", "nil", FALSE, r.err)
        /\ UNCHANGED <<lbService, algorithm, healthFlag, retryVars, cacheVars, secretVars, predVars>>

EnsureLoadBalancerDeleted ==
    LET v == getLoadBalancerVersion(lbService)
    IN  /\ LBVersion' = v
        /\ IF v.err
           THEN /\ lbCalls' = <<>>
                /\ lbResult' = Returned("EnsureLoadBalancerDeleted", "nil", FALSE, VersionUnknown)
           ELSE IF v.version \notin DOMAIN providers
           THEN /\ lbCalls' = <<>>
                /\ lbResult' = Returned("EnsureLoadBalancerDeleted", "nil", FALSE, "nil")
           ELSE \E r \in BackendErrorResults :
                   /\ lbCalls' = <<BackendCall(v.version, "EnsureLoadBalancerDeleted", r)>>
                   /\ lbResult' = Returned("EnsureLoadBalancerDeleted", "nil", FALSE, r.err)
        /\ UNCHANGED <<lbService, algorithm, healthFlag, retryVars, cacheVars, secretVars, predVars>>

\* ------------------------------------------------- annotation parsers
GetLBAlgorithm(svc) == Annotation(svc, ELBLBAlgorithm)

GetHealthCheckFlag(svc) == Annotation(svc, ELBHealthCheckFlag)

\* getLBAlgorithm with the default of the empty annotation lost
getLBAlgorithm_NoDefault(svc) ==
    LET al == GetLBAlgorithm(svc)
    IN  CASE al = ELBAlgorithmRoundRobin -> [alg |-> ELBAlgorithmRR, err |-> FALSE]
          [] al = ELBAlgorithmLeastConnections -> [alg |-> ELBAlgorithmLC, err |-> FALSE]
          [] al = ELBAlgorithmSourceIP -> [alg |-> ELBAlgorithmSRC, err |-> FALSE]
          [] OTHER -> [alg |-> "", err |-> TRUE]

getLBAlgorithm(svc) ==
    LET al == GetLBAlgorithm(svc)
    IN  CASE al \in {ELBAlgorithmRoundRobin, ELBAlgorithmNone} ->
                 [alg |-> ELBAlgorithmRR, err |-> FALSE]
          [] al = ELBAlgorithmLeastConnections -> [alg |-> ELBAlgorithmLC, err |-> FALSE]
          [] al = ELBAlgorithmSourceIP -> [alg |-> ELBAlgorithmSRC, err |-> FALSE]
          [] OTHER -> [alg |-> "", err |-> TRUE]

\* getHealthCheckFlag taking every value but "off" for enabled
getHealthCheckFlag_Lenient(svc) ==
    LET flag == GetHealthCheckFlag(svc)
    IN  CASE flag = "off" -> [flag |-> FALSE, err |-> FALSE]
          [] OTHER        -> [flag |-> TRUE, err |-> FALSE]

getHealthCheckFlag(svc) ==
    LET flag == GetHealthCheckFlag(svc)
    IN  CASE flag \in {"on", ""} -> [flag |-> TRUE, err |-> FALSE]
          [] flag = "off"        -> [flag |-> FALSE, err |-> FALSE]
          [] OTHER               -> [flag |-> FALSE, err |-> TRUE]

\* a backend parses the algorithm annotation of the Service
ApplyGetLBAlgorithm ==
    /\ algorithm' = [applied |-> TRUE, ret |-> getLBAlgorithm(lbService)]
    /\ UNCHANGED <<lbService, LBVersion, lbCalls, lbResult, healthFlag,
                   retryVars, cacheVars, secretVars, predVars>>

\* a backend parses the health check flag annotation of the Service
ApplyGetHealthCheckFlag ==
    /\ healthFlag' = [applied |-> TRUE, ret |-> getHealthCheckFlag(lbService)]
    /\ UNCHANGED <<lbService, LBVersion, lbCalls, lbResult, algorithm,
                   retryVars, cacheVars, secretVars, predVars>>

\* ------------------------------------------------------- the secret cache
\* lru.New(200)
CacheSize == 200

\* LoadBalancer.SecretName of the configuration NewHWSCloud read
ConfiguredSecretName == "hws-secret"

\* the name of a Secret that is not the configured one
OtherName == "other"

\* the Namespace of the n-th namespace of the cluster
Namespace(n) == "ns" \o ToString(n)

\* a *v1.Secret: Namespace, Name and Data
SecretObject(n, name, data) == [ns |-> Namespace(n), name |-> name, data |-> data]

\* key := kubeSecret.Namespace + "/" + kubeSecret.Name
Key(s) == s.ns \o "/" \o s.name

Payloads == {"d1", "d2"}

\* namespaces whose Secrets the informer reports after the initial sync
EventNamespaces == {1, CacheSize, CacheSize + 1}

\* the Secrets the informer reports after the initial sync
Secrets ==
    { SecretObject(n, ConfiguredSecretName, d) : n \in EventNamespaces, d \in Payloads }
        \cup { SecretObject(1, OtherName, d) : d \in Payloads }

\* what a delete event carries: the Secret, a DeletedFinalStateUnknown
\* holding the Secret, one holding something else, or something else
DeleteShapes == {"secret", "tombstone", "tombstone-other", "other"}

Entry(key, value) == [key |-> key, value |-> value]

Contains(c, key) == \E k \in 1..Len(c) : c[k].key = key

Without(c, key) == SelectSeq(c, LAMBDA e : e.key # key)

\* Cache.Add evicting the newest entry instead of the oldest
lruAdd_EvictsNewest(c, key, value) ==
    IF Contains(c, key)
    THEN Append(Without(c, key), Entry(key, value))
    ELSE IF Len(c) + 1 > CacheSize
         THEN Append(SubSeq(c, 1, Len(c) - 1), Entry(key, value))
         ELSE Append(c, Entry(key, value))

\* Cache.Add of hashicorp/golang-lru: an entry that exists gets the value and
\* becomes the most recently used; a new entry is inserted as the most
\* recently used and the oldest is removed when the size is exceeded
lruAdd(c, key, value) ==
    IF Contains(c, key)
    THEN Append(Without(c, key), Entry(key, value))
    ELSE IF Len(c) + 1 > CacheSize
         THEN Append(Tail(c), Entry(key, value))
         ELSE Append(c, Entry(key, value))

\* Cache.Get: an entry that exists becomes the most recently used
lruGet(c, key) ==
    IF Contains(c, key)
    THEN LET e == c[CHOOSE k \in 1..Len(c) : c[k].key = key]
         IN  [found |-> TRUE, cache |-> Append(Without(c, key), e)]
    ELSE [found |-> FALSE, cache |-> c]

\* the cache after the add events of the initial sync of a cluster whose
\* namespaces 1..n each hold a Secret of the configured name: n distinct
\* keys, n below the size, in the order of the events
Synced(n) ==
    [k \in 1..n |->
        LET s == SecretObject(k, ConfiguredSecretName, "d1") IN Entry(Key(s), s)]

\* numbers of namespaces that hold the Secret when NewHWSCloud syncs
SyncedSecrets == {0, CacheSize - 1}

\* one more informer event or cache read is handled
Handled(e) ==
    /\ ~crashed
    /\ events < MaxEvents
    /\ events' = events + 1
    /\ event' = e

\* AddFunc caching a Secret of any name
AddFunc_AnyName(s) ==
    /\ Handled(Event("add", "secret", s, ""))
    /\ lrucache' = lruAdd(lrucache, Key(s), s)
    /\ UNCHANGED <<crashed, globalConfig, retryVars, lbVars, secretVars, predVars>>

\* AddFunc; globalConfig is the local variable of NewHWSCloud here
AddFunc(s) ==
    /\ Handled(Event("add", "secret", s, ""))
    /\ lrucache' = IF s.name = ConfiguredSecretName
                   THEN lruAdd(lrucache, Key(s), s)
                   ELSE lrucache
    /\ UNCHANGED <<crashed, globalConfig, retryVars, lbVars, secretVars, predVars>>

\* UpdateFunc without the comparison of the payloads
UpdateFunc_AlwaysAdds(oldData, s) ==
    /\ Handled(Event("update", "secret", s, oldData))
    /\ lrucache' = IF s.name = ConfiguredSecretName
                   THEN lruAdd(lrucache, Key(s), s)
                   ELSE lrucache
    /\ UNCHANGED <<crashed, globalConfig, retryVars, lbVars, secretVars, predVars>>

\* UpdateFunc(oldObj, newObj) with oldObj.Data = oldData and newObj = s
UpdateFunc(oldData, s) ==
    /\ Handled(Event("update", "secret", s, oldData))
    /\ lrucache' = IF s.name = ConfiguredSecretName /\ oldData # s.data
                   THEN lruAdd(lrucache, Key(s), s)
                   ELSE lrucache
    /\ UNCHANGED <<crashed, globalConfig, retryVars, lbVars, secretVars, predVars>>

\* deleteSecret with obj.(*v1.Secret) and tombstone.Obj.(*v1.Secret) as
\* unchecked type assertions: an object of another type panics
deleteSecret_UncheckedAssertion(shape, s) ==
    /\ Handled(Event("delete", shape, s, ""))
    /\ IF shape \notin {"secret", "tombstone"}
       THEN crashed' = TRUE /\ UNCHANGED lrucache
       ELSE IF globalConfig = NilPointer
       THEN crashed' = TRUE /\ UNCHANGED lrucache
       ELSE /\ lrucache' = IF s.name = globalConfig.LoadBalancer.SecretName
                           THEN lruAdd(lrucache, Key(s), s)
                           ELSE lrucache
            /\ UNCHANGED crashed
    /\ UNCHANGED <<globalConfig, retryVars, lbVars, secretVars, predVars>>

\* DeleteFunc: deleteSecret(obj, lrucache).  An object that is no Secret and
\* holds none is dropped; otherwise the name is compared with
\* globalConfig.LoadBalancer.SecretName of the package-level globalConfig,
\* and reading through the nil pointer panics.
deleteSecret(shape, s) ==
    /\ Handled(Event("delete", shape, s, ""))
    /\ IF shape \notin {"secret", "tombstone"}
       THEN UNCHANGED <<lrucache, crashed>>
       ELSE IF globalConfig = NilPointer
       THEN crashed' = TRUE /\ UNCHANGED lrucache
       ELSE /\ lrucache' = IF s.name = globalConfig.LoadBalancer.SecretName
                           THEN lruAdd(lrucache, Key(s), s)
                           ELSE lrucache
            /\ UNCHANGED crashed
    /\ UNCHANGED <<globalConfig, retryVars, lbVars, secretVars, predVars>>

\* a backend reads the credential of a namespace from the cache
CacheGet(n) ==
    LET s == SecretObject(n, ConfiguredSecretName, "")
    IN  /\ Handled(Event("get", IF lruGet(lrucache, Key(s)).found THEN "found" ELSE "missing", s, ""))
        /\ lrucache' = lruGet(lrucache, Key(s)).cache
        /\ UNCHANGED <<crashed, globalConfig, retryVars, lbVars, secretVars, predVars>>

\* ------------------------------------------------------ the Secret record
\* A field of a Secret is a sequence of bytes.

\* the value of a character of the alphabet of base64.StdEncoding, or -1
B64Index(b) ==
    IF b \in 65..90 THEN b - 65
    ELSE IF b \in 97..122 THEN b - 71
    ELSE IF b \in 48..57 THEN b + 4
    ELSE IF b = 43 THEN 62
    ELSE IF b = 47 THEN 63
    ELSE 0 - 1

\* the padding character '='
PadChar == 61

\* '\n' and '\r', which the decoder skips
IsNewline(b) == b \in {10, 13}

RECURSIVE DecodeQuanta(_)
\* the bytes of a sequence of groups of four characters, '=' counting as zero
DecodeQuanta(t) ==
    IF Len(t) = 0 THEN <<>>
    ELSE LET d(k) == IF t[k] = PadChar THEN 0 ELSE B64Index(t[k])
             v    == ((d(1) * 64 + d(2)) * 64 + d(3)) * 64 + d(4)
         IN  <<v \div 65536, (v \div 256) % 256, v % 256>>
                 \o DecodeQuanta(SubSeq(t, 5, Len(t)))

\* base64.StdEncoding.DecodeString: newlines are skipped; what remains is
\* groups of four characters of the alphabet, the last of which may end in
\* one or two '='; anything else is a CorruptInputError
StdDecode(s) ==
    LET t     == SelectSeq(s, LAMBDA b : ~IsNewline(b))
        n     == Len(t)
        pads  == IF n >= 2 /\ t[n] = PadChar /\ t[n - 1] = PadChar THEN 2
                 ELSE IF n >= 1 /\ t[n] = PadChar THEN 1
                 ELSE 0
        valid == /\ n % 4 = 0
                 /\ \A k \in 1..(n - pads) : B64Index(t[k]) >= 0
    IN  IF valid
        THEN [err |-> FALSE, bytes |-> SubSeq(DecodeQuanta(t), 1, 3 * (n \div 4) - pads)]
        ELSE [err |-> TRUE, bytes |-> <<>>]

\* values a field of a Secret may hold before it is decoded:
\* "", "YQ==" (of "a"), "UVE9PQ==" (of "QQ=="), "!" and "YWJj\n" (of "abc")
FieldValues ==
    { <<>>,
      <<89, 81, 61, 61>>,
      <<85, 86, 69, 57, 80, 81, 61, 61>>,
      <<33>>,
      <<89, 87, 74, 106, 10>> }

\* the Secret records as they are unmarshalled
SecretRecords ==
    [Credential : FieldValues, AccessKey : FieldValues, SecretKey : FieldValues,
     base64Decoded : {FALSE}]

\* DecodeBase64 that assigns the fields only when all three have decoded
DecodeBase64_Atomic(s) ==
    IF s.base64Decoded THEN [result |-> "panic", secret |-> s]
    ELSE LET c  == StdDecode(s.Credential)
             s1 == [s EXCEPT !.Credential = c.bytes]
             a  == StdDecode(s1.AccessKey)
             s2 == [s1 EXCEPT !.AccessKey = a.bytes]
             k  == StdDecode(s2.SecretKey)
             s3 == [s2 EXCEPT !.SecretKey = k.bytes]
         IN  IF c.err \/ a.err \/ k.err THEN [result |-> "error", secret |-> s]
             ELSE [result |-> "nil", secret |-> [s3 EXCEPT !.base64Decoded = TRUE]]

\* DecodeBase64 without the assignment s.base64Decoded = true
DecodeBase64_NoMark(s) ==
    IF s.base64Decoded THEN [result |-> "panic", secret |-> s]
    ELSE LET c  == StdDecode(s.Credential)
             s1 == [s EXCEPT !.Credential = c.bytes]
             a  == StdDecode(s1.AccessKey)
             s2 == [s1 EXCEPT !.AccessKey = a.bytes]
             k  == StdDecode(s2.SecretKey)
             s3 == [s2 EXCEPT !.SecretKey = k.bytes]
         IN  IF c.err THEN [result |-> "error", secret |-> s]
             ELSE IF a.err THEN [result |-> "error", secret |-> s1]
             ELSE IF k.err THEN [result |-> "error", secret |-> s2]
             ELSE [result |-> "nil", secret |-> s3]

\* (s *Secret) DecodeBase64(): how the call ends and the record it leaves
DecodeBase64(s) ==
    IF s.base64Decoded THEN [result |-> "panic", secret |-> s]
    ELSE LET c  == StdDecode(s.Credential)
             s1 == [s EXCEPT !.Credential = c.bytes]
             a  == StdDecode(s1.AccessKey)
             s2 == [s1 EXCEPT !.AccessKey = a.bytes]
             k  == StdDecode(s2.SecretKey)
             s3 == [s2 EXCEPT !.SecretKey = k.bytes]
         IN  IF c.err THEN [result |-> "error", secret |-> s]
             ELSE IF a.err THEN [result |-> "error", secret |-> s1]
             ELSE IF k.err THEN [result |-> "error", secret |-> s2]
             ELSE [result |-> "nil", secret |-> [s3 EXCEPT !.base64Decoded = TRUE]]

\* DecodeBase64 is called on the record
CallDecodeBase64 ==
    /\ decodeCalls < MaxDecodes
    /\ decodeCalls' = decodeCalls + 1
    /\ secret' = DecodeBase64(secret).secret
    /\ decodeResult' = DecodeBase64(secret).result
    /\ succeeded' = (succeeded \/ DecodeBase64(secret).result = "nil")
    /\ UNCHANGED <<retryVars, lbVars, cacheVars, predVars>>

\* ------------------------------------- predicates on Services, Nodes, Pods
ELBPersistAutoCreate == "kubernetes.io/elb.persist-autocreate"

\* values of the persist-autocreate annotation a Service may carry
PersistValues == {"", "false", "FALSE", "False", "true", "yes", "0"}

\* the Services handed to GetPersistAutoCreate
PersistServices == WithAnnotation({NoAnnotations}, ELBPersistAutoCreate, PersistValues)

\* GetPersistAutoCreate comparing without regard to case
GetPersistAutoCreate_IgnoresCase(svc) ==
    LET persist == Annotation(svc, ELBPersistAutoCreate)
    IN  IF persist = "" \/ persist \in {"false", "FALSE", "False"} THEN FALSE ELSE TRUE

GetPersistAutoCreate(svc) ==
    LET persist == Annotation(svc, ELBPersistAutoCreate)
    IN  IF persist = "" \/ persist = "false" THEN FALSE ELSE TRUE

\* v1.NodeReady and v1.PodReady
ConditionReady == "Ready"

\* v1.ConditionTrue
ConditionTrue == "True"

\* v1.ConditionStatus
ConditionStatuses == {"True", "False", "Unknown"}

Condition(type, status) == [Type |-> type, Status |-> status]

\* the sequences of at most two conditions of the given types
ConditionLists(types) ==
    LET conds == { Condition(t, s) : t \in types, s \in ConditionStatuses }
    IN  {<<>>} \cup { <<c>> : c \in conds } \cup { <<c, d>> : c \in conds, d \in conds }

\* the Nodes handed to CheckNodeHealth: Status.Conditions holds at most one
\* condition of a type (the list is keyed by type)
Nodes ==
    { [Conditions |-> cs, Unschedulable |-> u] :
        cs \in { l \in ConditionLists({"Ready", "MemoryPressure"}) :
                    Len(l) = 2 => l[1].Type # l[2].Type },
        u \in BOOLEAN }

\* CheckNodeHealth without the test of node.Spec.Unschedulable
CheckNodeHealth_IgnoresUnschedulable(n) ==
    LET types == { n.Conditions[k].Type : k \in 1..Len(n.Conditions) }
        last(t) == CHOOSE k \in 1..Len(n.Conditions) :
                       /\ n.Conditions[k].Type = t
                       /\ \A j \in (k + 1)..Len(n.Conditions) : n.Conditions[j].Type # t
        conditionMap == [t \in types |-> n.Conditions[last(t)]]
        ready  == IF ConditionReady \in DOMAIN conditionMap
                  THEN conditionMap[ConditionReady].Status = ConditionTrue
                  ELSE FALSE
    IN  [status |-> ready, err |-> FALSE]

\* CheckNodeHealth: conditionMap keeps, of each type, the condition the loop
\* met last
CheckNodeHealth(n) ==
    LET types == { n.Conditions[k].Type : k \in 1..Len(n.Conditions) }
        last(t) == CHOOSE k \in 1..Len(n.Conditions) :
                       /\ n.Conditions[k].Type = t
                       /\ \A j \in (k + 1)..Len(n.Conditions) : n.Conditions[j].Type # t
        conditionMap == [t \in types |-> n.Conditions[last(t)]]
        ready  == IF ConditionReady \in DOMAIN conditionMap
                  THEN conditionMap[ConditionReady].Status = ConditionTrue
                  ELSE FALSE
    IN  [status |-> IF n.Unschedulable THEN FALSE ELSE ready, err |-> FALSE]

\* v1.PodPhase
PodPhases == {"Pending", "Running", "Succeeded", "Failed", "Unknown"}

\* the Pods handed to IsPodActive; Deleting stands for DeletionTimestamp != nil
Pods ==
    [Phase : PodPhases, Deleting : BOOLEAN,
     Conditions : ConditionLists({"Ready", "PodScheduled"})]

\* IsPodActive without the test of p.DeletionTimestamp
IsPodActive_IgnoresDeletion(p) ==
    /\ p.Phase # "Succeeded"
    /\ p.Phase # "Failed"
    /\ \E k \in 1..Len(p.Conditions) :
          p.Conditions[k].Type = ConditionReady /\ p.Conditions[k].Status = ConditionTrue

IsPodActive(p) ==
    /\ p.Phase # "Succeeded"
    /\ p.Phase # "Failed"
    /\ ~p.Deleting
    /\ \E k \in 1..Len(p.Conditions) :
          p.Conditions[k].Type = ConditionReady /\ p.Conditions[k].Status = ConditionTrue

\* a backend asks whether the Service persists its auto-created instance
ApplyGetPersistAutoCreate ==
    /\ persistAutoCreate' = [applied |-> TRUE, ret |-> GetPersistAutoCreate(lbService)]
    /\ UNCHANGED <<node, nodeHealth, pod, podActive,
                   retryVars, lbVars, cacheVars, secretVars>>

\* a backend asks whether the Node may be a member
ApplyCheckNodeHealth ==
    /\ nodeHealth' = [applied |-> TRUE, status |-> CheckNodeHealth(node).status,
                      err |-> CheckNodeHealth(node).err]
    /\ UNCHANGED <<persistAutoCreate, node, pod, podActive,
                   retryVars, lbVars, cacheVars, secretVars>>

\* a backend asks whether the Pod is active
ApplyIsPodActive ==
    /\ podActive' = [applied |-> TRUE, ret |-> IsPodActive(pod)]
    /\ UNCHANGED <<persistAutoCreate, node, nodeHealth, pod,
                   retryVars, lbVars, cacheVars, secretVars>>

\* -------------------------------------------------------- specifications
\* one worker, with other clients writing any annotation
Next ==
    \/ \E w \in SeqWorkers : CallUpdateServiceStatus(w, MaxSeqCalls)
    \/ \E w \in SeqWorkers : CallUpdateServiceMarkIfNeeded(w, MaxSeqCalls)
    \/ \E w \in SeqWorkers : updateServiceStatus(w)
    \/ \E w \in SeqWorkers : updateServiceMarkIfNeeded(w)
    \/ \E w \in SeqWorkers : GetService(w)
    \/ ExtUpdate
    \/ ExtDelete

Spec == Init /\ [][Next]_vars

\* two workers on the same Service and no other client
NextConc ==
    \/ \E w \in Workers : CallUpdateServiceStatus(w, MaxCalls)
    \/ \E w \in Workers : CallUpdateServiceMarkIfNeeded(w, MaxCalls)
    \/ \E w \in Workers : updateServiceStatus(w)
    \/ \E w \in Workers : updateServiceMarkIfNeeded(w)
    \/ \E w \in Workers : GetService(w)

InitConc ==
    /\ store = [exists |-> TRUE, ann |-> NoAnnotations, rv |-> 0]
    /\ strict \in BOOLEAN
    /\ pc = [w \in Workers |-> "idle"]
    /\ op = [w \in Workers |-> "status"]
    /\ tryAgain = [w \in Workers |-> FALSE]
    /\ service = [w \in Workers |-> EmptyService]
    /\ arg = [w \in Workers |-> EmptyService]
    /\ i = [w \in Workers |-> 0]
    /\ log = [w \in Workers |-> <<>>]
    /\ calls = [w \in Workers |-> 0]
    /\ ext = 0
    /\ logging = FALSE
    /\ LBIdle
    /\ CacheIdle
    /\ SecretIdle
    /\ PredIdle

SpecConc == InitConc /\ [][NextConc]_vars

\* no worker runs a retry loop
RetryIdle ==
    /\ store = [exists |-> TRUE, ann |-> NoAnnotations, rv |-> 0]
    /\ strict = FALSE
    /\ pc = [w \in Workers |-> "idle"]
    /\ op = [w \in Workers |-> "status"]
    /\ tryAgain = [w \in Workers |-> FALSE]
    /\ service = [w \in Workers |-> EmptyService]
    /\ arg = [w \in Workers |-> EmptyService]
    /\ i = [w \in Workers |-> 0]
    /\ log = [w \in Workers |-> <<>>]
    /\ calls = [w \in Workers |-> 0]
    /\ ext = 0
    /\ logging = FALSE

\* the load balancer operations and the annotation parsers on any Service
InitLB ==
    /\ lbService \in LBServices
    /\ LBVersion = [version |-> 0, err |-> FALSE]
    /\ lbCalls = <<>>
    /\ lbResult = [op |-> "none", status |-> "nil", exists |-> FALSE, err |-> "nil"]
    /\ algorithm = [applied |-> FALSE, ret |-> [alg |-> "", err |-> FALSE]]
    /\ healthFlag = [applied |-> FALSE, ret |-> [flag |-> FALSE, err |-> FALSE]]
    /\ RetryIdle
    /\ CacheIdle
    /\ SecretIdle
    /\ PredIdle

NextLB ==
    \/ GetLoadBalancer
    \/ EnsureLoadBalancer
    \/ UpdateLoadBalancer
    \/ EnsureLoadBalancerDeleted
    \/ ApplyGetLBAlgorithm
    \/ ApplyGetHealthCheckFlag

SpecLB == InitLB /\ [][NextLB]_vars

\* the secret cache after NewHWSCloud returned: the informer has synced, the
\* package-level globalConfig was never assigned
InitCache ==
    /\ lrucache \in { Synced(n) : n \in SyncedSecrets }
    /\ event = NoEvent
    /\ crashed = FALSE
    /\ globalConfig = NilPointer
    /\ events = 0
    /\ RetryIdle
    /\ LBIdle
    /\ SecretIdle
    /\ PredIdle

NextCache ==
    \/ \E s \in Secrets : AddFunc(s)
    \/ \E s \in Secrets, oldData \in Payloads : UpdateFunc(oldData, s)
    \/ \E s \in Secrets, shape \in DeleteShapes : deleteSecret(shape, s)
    \/ \E n \in EventNamespaces : CacheGet(n)

SpecCache == InitCache /\ [][NextCache]_vars

\* DecodeBase64 called again and again on any Secret record
InitSecret ==
    /\ secret \in SecretRecords
    /\ decodeResult = "none"
    /\ decodeCalls = 0
    /\ succeeded = FALSE
    /\ RetryIdle
    /\ LBIdle
    /\ CacheIdle
    /\ PredIdle

NextSecret == CallDecodeBase64

SpecSecret == InitSecret /\ [][NextSecret]_vars

\* the predicates on any Service, any Node or any Pod
InitPred ==
    /\ \/ lbService \in PersistServices /\ node \in Nodes
          /\ pod = [Phase |-> "Pending", Deleting |-> FALSE, Conditions |-> <<>>]
       \/ lbService = NoAnnotations
          /\ node = [Conditions |-> <<>>, Unschedulable |-> FALSE]
          /\ pod \in Pods
    /\ persistAutoCreate = [applied |-> FALSE, ret |-> FALSE]
    /\ nodeHealth = [applied |-> FALSE, status |-> FALSE, err |-> FALSE]
    /\ podActive = [applied |-> FALSE, ret |-> FALSE]
    /\ LBVersion = [version |-> 0, err |-> FALSE]
    /\ lbCalls = <<>>
    /\ lbResult = [op |-> "none", status |-> "nil", exists |-> FALSE, err |-> "nil"]
    /\ algorithm = [applied |-> FALSE, ret |-> [alg |-> "", err |-> FALSE]]
    /\ healthFlag = [applied |-> FALSE, ret |-> [flag |-> FALSE, err |-> FALSE]]
    /\ RetryIdle
    /\ CacheIdle
    /\ SecretIdle

NextPred ==
    \/ ApplyGetPersistAutoCreate
    \/ ApplyCheckNodeHealth
    \/ ApplyIsPodActive

SpecPred == InitPred /\ [][NextPred]_vars

\* every Update the invocation of w has made was answered with success
UpdatesSucceed(w) ==
    \A k \in 1..Len(log'[w]) : log'[w][k].call = "Update" => log'[w][k].ans = "ok"

\* One controller calls updateServiceStatus (as w1) and
\* updateServiceMarkIfNeeded (as w2) one after the other on the same Service;
\* no other client writes it and the server accepts every Update.
NextRun ==
    \/ pc["w2"] = "idle" /\ CallUpdateServiceStatus("w1", MaxRunStatus)
    \/ pc["w1"] = "idle" /\ CallUpdateServiceMarkIfNeeded("w2", MaxRunMark)
    \/ updateServiceStatus("w1") /\ UpdatesSucceed("w1")
    \/ updateServiceMarkIfNeeded("w2") /\ UpdatesSucceed("w2")

SpecRun == Init /\ [][NextRun]_vars

TypeOK == \A w \in Workers : pc[w] \in {"idle", "loop", "get", "panic"} /\ i[w] \in 0..MaxRetry

\* ------------------------------------------------- reading an invocation
Updates(w) == SelectSeq(log[w], LAMBDA e : e.call = "Update")

Gets(w) == SelectSeq(log[w], LAMBDA e : e.call = "Get")

Warnings(w) == SelectSeq(log[w], LAMBDA e : e.call = "Warning")

HasMark(ann) == ELBMarkAnnotation \in DOMAIN ann

AllGetsOk(w) == \A k \in 1..Len(Gets(w)) : Gets(w)[k].ans = "ok"

AllUpdatesAnswer(w, ans) == \A k \in 1..Len(Updates(w)) : Updates(w)[k].ans = ans

\* the mark carried by ann; a string no mark can be when there is none
MarkOf(ann) == IF HasMark(ann) THEN ann[ELBMarkAnnotation] ELSE <<"absent">>

\* the mark that follows the one carried by ann
Successor(ann) ==
    IF ~HasMark(ann) \/ Atoi(ann[ELBMarkAnnotation]).err THEN <<"1">>
    ELSE Itoa(Atoi(ann[ELBMarkAnnotation]).n + 1)

\* updateServiceStatus was entered on a Service with no mark and its Updates
\* were answered conflict, conflict, success, each conflict followed by a
\* successful Get
ConflictConflictSuccess(w) ==
    /\ op[w] = "status"
    /\ ~HasMark(arg[w].ann)
    /\ Len(Updates(w)) = 3
    /\ Updates(w)[1].ans = "conflict"
    /\ Updates(w)[2].ans = "conflict"
    /\ Updates(w)[3].ans = "ok"
    /\ AllGetsOk(w)

\* C1 as stated: after conflict, conflict, success on a Service that had no
\* mark, updateServiceStatus has returned and the mark it persisted is "3".
C1_MarkIsThree ==
    \A w \in SeqWorkers :
        ConflictConflictSuccess(w) =>
            pc[w] = "idle" /\ MarkOf(Updates(w)[3].ann) = <<"3">>

\* C1 amended: after conflict, conflict, success on a Service that had no
\* mark, updateServiceStatus has returned and the mark it persisted is the
\* successor of the mark on the Service fetched after the second conflict:
\* "1" when that Service has no mark or an unparseable one, "3" only when it
\* carries a mark that parses to 2.
C1_MarkFollowsRefetch ==
    \A w \in SeqWorkers :
        ConflictConflictSuccess(w) =>
            /\ pc[w] = "idle"
            /\ Len(Gets(w)) = 2
            /\ Len(Warnings(w)) = 0
            /\ MarkOf(Updates(w)[3].ann) = Successor(Gets(w)[2].ann)
            /\ (MarkOf(Updates(w)[3].ann) = <<"3">>
                  <=> /\ HasMark(Gets(w)[2].ann)
                      /\ ~Atoi(Gets(w)[2].ann[ELBMarkAnnotation]).err
                      /\ Atoi(Gets(w)[2].ann[ELBMarkAnnotation]).n = 2)

\* conflict, conflict, success ending with the mark "3"
C1_Witness ==
    \E w \in SeqWorkers :
        /\ ConflictConflictSuccess(w)
        /\ MarkOf(Updates(w)[3].ann) = <<"3">>
        /\ MarkOf(Gets(w)[2].ann) = <<"+", "2">>

\* every Update of an invocation of updateServiceStatus was answered
\* conflict and every Get succeeded
AlwaysConflict(w) ==
    /\ op[w] = "status"
    /\ calls[w] > 0
    /\ AllUpdatesAnswer(w, "conflict")
    /\ AllGetsOk(w)

\* C2 as stated: when every Update is answered conflict, updateServiceStatus
\* makes 3 Updates, then emits exactly one warning event and returns.
C2_WarningAfterThreeConflicts ==
    \A w \in SeqWorkers :
        AlwaysConflict(w) /\ Len(Updates(w)) = MaxRetry /\ Len(Gets(w)) = MaxRetry =>
            pc[w] = "idle" /\ Len(Warnings(w)) = 1

\* C2 amended: when every Update is answered conflict (each followed by a
\* successful Get), updateServiceStatus makes at most 3 Updates and does not
\* panic; after the third conflict and its Get it has returned with no
\* warning event.  A warning event is emitted, once, only if the Service as
\* passed or as fetched carries a mark of MaxRetry or more, which ends the
\* invocation before its third Update.
C2_SilentAfterThreeConflicts ==
    \A w \in SeqWorkers :
        AlwaysConflict(w) =>
            /\ Len(Updates(w)) <= MaxRetry
            /\ pc[w] # "panic"
            /\ Len(Warnings(w)) <= 1
            /\ (Len(Updates(w)) = MaxRetry /\ Len(Gets(w)) = MaxRetry
                  => pc[w] = "idle" /\ Len(Warnings(w)) = 0)
            /\ (Len(Warnings(w)) = 1
                  => /\ pc[w] = "idle"
                     /\ Len(Updates(w)) < MaxRetry
                     /\ NextMark(log[w][Len(log[w])].seen).stop)

\* three Updates answered conflict, three Gets, and the invocation is over
C2_Witness ==
    \E w \in SeqWorkers :
        /\ AlwaysConflict(w)
        /\ Len(Updates(w)) = MaxRetry
        /\ Len(Gets(w)) = MaxRetry
        /\ pc[w] = "idle"

\* ann carries a mark that parses to an integer of MaxRetry or more
AtCeiling(ann) ==
    /\ HasMark(ann)
    /\ ~Atoi(ann[ELBMarkAnnotation]).err
    /\ Atoi(ann[ELBMarkAnnotation]).n >= MaxRetry

\* worker w takes a step of its invocation
Steps(w) == <<pc[w], i[w], log[w]>>' # <<pc[w], i[w], log[w]>>

Running(w) == pc[w] \in {"loop", "get"}

\* the warning event of updateServiceStatus for the Service svc
Warning(ann) ==
    [call |-> "Warning", key |-> SvcKey, ann |-> NoAnnotations, seen |-> ann,
     ans |-> "CreateLoadBalancerFailed"]

C3_Log ==
    \A w \in SeqWorkers :
        /\ \A k \in 1..Len(log[w]) :
              /\ (op[w] = "status" /\ log[w][k].call = "Update" => ~AtCeiling(log[w][k].seen))
              /\ log[w][k].call = "Warning" =>
                    /\ op[w] = "status"
                    /\ log[w][k] = Warning(log[w][k].seen)
                    /\ AtCeiling(log[w][k].seen)
                    /\ k = Len(log[w])
                    /\ pc[w] = "idle"
        /\ Len(Warnings(w)) <= 1

C3_Step ==
    \A w \in SeqWorkers :
        pc[w] = "loop" /\ op[w] = "status" /\ AtCeiling(service[w].ann) /\ Steps(w) =>
            /\ log'[w] = Append(log[w], Warning(service[w].ann))
            /\ pc'[w] = "idle"
            /\ store' = store

\* C3: an attempt of updateServiceStatus that reads a mark parsing to
\* MaxRetry or more emits one warning event with reason
\* CreateLoadBalancerFailed, makes no Update then or later, returns and
\* leaves the stored Service as it is; a warning event is emitted in no
\* other case.
C3_CeilingStopsWithWarning == [](C3_Log) /\ [][C3_Step]_vars

\* a warning emitted on the second attempt, for a mark read from the Get
C3_Witness ==
    \E w \in SeqWorkers :
        /\ Len(log[w]) = 3
        /\ log[w][2].call = "Get"
        /\ log[w][3].call = "Warning"
        /\ MarkOf(log[w][3].seen) = <<"0", "3">>
        /\ ~AtCeiling(arg[w].ann)

\* C4: after a conflict and a successful Get, the next attempt of
\* updateServiceStatus works on the fetched Service: what it writes is the
\* fetched annotations with the successor of the fetched mark (or it stops
\* at the ceiling of the fetched mark), whatever the invocation started
\* with; a Get follows only a conflict, and after the MaxRetry-th attempt
\* nothing is retried.
C4_RetryOnRefetched ==
    \A w \in SeqWorkers :
        op[w] = "status" =>
            /\ \A k \in 1..Len(log[w]) :
                  log[w][k].call = "Get" =>
                      /\ k > 1
                      /\ log[w][k - 1].call = "Update"
                      /\ log[w][k - 1].ans = "conflict"
                      /\ (log[w][k].ans = "ok" /\ k < Len(log[w]) =>
                            /\ log[w][k + 1].seen = log[w][k].ann
                            /\ (log[w][k + 1].call = "Update" =>
                                  log[w][k + 1].ann =
                                      SetAnnotation(log[w][k].ann, ELBMarkAnnotation,
                                                    Successor(log[w][k].ann)))
                            /\ (log[w][k + 1].call = "Warning" => AtCeiling(log[w][k].ann)))
            /\ Len(Updates(w)) <= MaxRetry
            /\ (Len(log[w]) > 0 /\ log[w][Len(log[w])].call = "Get" /\ pc[w] # "panic" =>
                  pc[w] = (IF Len(Updates(w)) < MaxRetry THEN "loop" ELSE "idle"))

\* an Update made after a Get whose mark differs from the one the caller saw
C4_Witness ==
    \E w \in SeqWorkers :
        /\ op[w] = "status"
        /\ Len(log[w]) = 3
        /\ log[w][2].call = "Get"
        /\ log[w][2].ans = "ok"
        /\ log[w][3].call = "Update"
        /\ ~HasMark(arg[w].ann)
        /\ MarkOf(log[w][2].ann) = <<"-", "1">>
        /\ MarkOf(log[w][3].ann) = <<"0">>

\* C5: in updateServiceStatus and updateServiceMarkIfNeeded, an Update
\* answered not-found is the last call of the invocation (no Update, Get or
\* warning event follows it) and the invocation has returned.
C5_NotFoundStops ==
    \A w \in SeqWorkers :
        \A k \in 1..Len(log[w]) :
            log[w][k].call = "Update" /\ log[w][k].ans = "notfound" =>
                k = Len(log[w]) /\ pc[w] = "idle"

\* the Service was deleted under updateServiceMarkIfNeeded, whose second
\* Update was answered not-found
C5_Witness ==
    \E w \in SeqWorkers :
        /\ op[w] = "mark"
        /\ ~store.exists
        /\ Len(log[w]) = 3
        /\ log[w][3].call = "Update"
        /\ log[w][3].ans = "notfound"

C6_Log ==
    \A w \in SeqWorkers :
        /\ Len(Updates(w)) <= MaxRetry
        /\ Len(Gets(w)) <= MaxRetry
        /\ i[w] <= MaxRetry
        /\ (Running(w) => i[w] < MaxRetry)
        /\ (Running(w) =>
              ENABLED (updateServiceStatus(w) \/ updateServiceMarkIfNeeded(w) \/ GetService(w)))
        /\ (Len(Updates(w)) > 0 /\ AllUpdatesAnswer(w, "error") =>
              /\ Len(log[w]) = Len(Updates(w))
              /\ pc[w] = (IF Len(Updates(w)) < MaxRetry THEN "loop" ELSE "idle"))

\* every step of a running invocation ends it or moves it forward in the
\* order (i, position in the loop body)
C6_Step ==
    \A w \in SeqWorkers :
        Running(w) /\ Steps(w) =>
            \/ pc'[w] \in {"idle", "panic"}
            \/ /\ Running(w)'
               /\ 2 * i'[w] + (IF pc'[w] = "get" THEN 1 ELSE 0)
                     > 2 * i[w] + (IF pc[w] = "get" THEN 1 ELSE 0)

\* C6: whatever the API answers, an invocation of updateServiceStatus or
\* updateServiceMarkIfNeeded makes at most MaxRetry Updates and at most
\* MaxRetry Gets and ends: it can always take a step, and each step ends it
\* or advances the loop, which is bounded by MaxRetry.  When every Update
\* fails with an error that is neither not-found nor conflict, it makes
\* MaxRetry Updates, no Get, emits no event and returns.
C6_BoundedAttempts == [](C6_Log) /\ [][C6_Step]_vars

\* MaxRetry Updates, each failing with another error, then the return
C6_Witness ==
    \E w \in SeqWorkers :
        /\ Len(Updates(w)) = MaxRetry
        /\ AllUpdatesAnswer(w, "error")
        /\ pc[w] = "idle"
        /\ Len(log[w]) = MaxRetry

\* C7: the annotations an attempt of updateServiceStatus sends are the ones
\* it read with the mark replaced: "1" when it read no mark, "1" when the
\* mark does not parse as an integer, the decimal of n+1 when it parses to
\* n < MaxRetry; every other annotation is sent as read.
C7_MarkFunction ==
    \A w \in SeqWorkers :
        op[w] = "status" =>
            \A k \in 1..Len(log[w]) :
                log[w][k].call = "Update" =>
                    LET seen == log[w][k].seen
                        sent == log[w][k].ann
                    IN  /\ DOMAIN sent = DOMAIN seen \cup {ELBMarkAnnotation}
                        /\ \A a \in DOMAIN seen \ {ELBMarkAnnotation} : sent[a] = seen[a]
                        /\ (~HasMark(seen) => sent[ELBMarkAnnotation] = <<"1">>)
                        /\ (HasMark(seen) /\ Atoi(seen[ELBMarkAnnotation]).err
                              => sent[ELBMarkAnnotation] = <<"1">>)
                        /\ (HasMark(seen) /\ ~Atoi(seen[ELBMarkAnnotation]).err
                              => /\ Atoi(seen[ELBMarkAnnotation]).n < MaxRetry
                                 /\ sent[ELBMarkAnnotation]
                                       = Itoa(Atoi(seen[ELBMarkAnnotation]).n + 1)
                                 /\ Atoi(sent[ELBMarkAnnotation]).n
                                       = Atoi(seen[ELBMarkAnnotation]).n + 1)

\* an Update that turns "+2" into "3" and carries the class annotation along
C7_Witness ==
    \E w \in SeqWorkers :
        /\ op[w] = "status"
        /\ Len(log[w]) > 0
        /\ log[w][Len(log[w])].call = "Update"
        /\ log[w][Len(log[w])].ans = "ok"
        /\ ELBClassAnnotation \in DOMAIN log[w][Len(log[w])].seen
        /\ MarkOf(log[w][Len(log[w])].seen) = <<"+", "2">>
        /\ MarkOf(store.ann) = <<"3">>
        /\ ELBClassAnnotation \in DOMAIN store.ann

C8_Log ==
    \A w \in SeqWorkers :
        op[w] = "mark" =>
            /\ Len(Warnings(w)) = 0
            /\ \A k \in 1..Len(log[w]) :
                  /\ log[w][k].call = "Update" =>
                        LET seen == log[w][k].seen
                            sent == log[w][k].ann
                        IN  /\ HasMark(seen) =>
                                  /\ ~HasMark(sent)
                                  /\ sent = DeleteAnnotation(seen, ELBMarkAnnotation)
                            /\ ~HasMark(seen) =>
                                  /\ tryAgain[w]
                                  /\ sent = SetAnnotation(seen, ELBMarkAnnotation, <<"0">>)
                  /\ log[w][k].call = "Get" =>
                        /\ k > 1
                        /\ log[w][k - 1].ans = "conflict"
                        /\ (log[w][k].ans = "ok" /\ k < Len(log[w]) =>
                              log[w][k + 1].seen = log[w][k].ann)
            /\ (calls[w] > 0 /\ ~HasMark(arg[w].ann) /\ ~tryAgain[w] => log[w] = <<>>)

C8_Step ==
    \A w \in SeqWorkers :
        pc[w] = "loop" /\ op[w] = "mark" /\ Steps(w) =>
            IF ~HasMark(service[w].ann) /\ ~tryAgain[w]
            THEN pc'[w] = "idle" /\ log'[w] = log[w] /\ store' = store
            ELSE /\ Len(log'[w]) = Len(log[w]) + 1
                 /\ log'[w][Len(log'[w])].call = "Update"

\* C8: an attempt of updateServiceMarkIfNeeded that reads a mark sends the
\* annotations without it, whatever its value; one that reads no mark
\* returns with no Update and no Get when tryAgain is false and sends the
\* mark "0" when tryAgain is true; after a conflict it fetches the Service
\* and decides again on what it fetched.
C8_ClearsMark == [](C8_Log) /\ [][C8_Step]_vars

\* after a conflict the fetched Service carries a mark, which the second
\* Update removes from the store
C8_Witness ==
    \E w \in SeqWorkers :
        /\ op[w] = "mark"
        /\ Len(log[w]) = 3
        /\ ~HasMark(log[w][1].seen)
        /\ MarkOf(log[w][1].ann) = <<"0">>
        /\ log[w][2].call = "Get"
        /\ HasMark(log[w][2].ann)
        /\ log[w][3].ans = "ok"
        /\ ~HasMark(store.ann)

\* the marks a store may hold when only the two functions write the mark
CountMarks == { Itoa(n) : n \in 0..MaxRetry }

C9_State ==
    strict =>
        /\ ~HasMark(store.ann) \/ MarkOf(store.ann) \in CountMarks
        /\ \A w \in Workers :
              /\ i[w] <= MaxRetry
              /\ (Running(w) => i[w] < MaxRetry)
              /\ (Running(w) =>
                    ENABLED (updateServiceStatus(w) \/ updateServiceMarkIfNeeded(w)
                                \/ GetService(w)))

C9_Step ==
    strict =>
        \A w \in Workers :
            /\ Running(w) /\ Steps(w) =>
                  \/ pc'[w] \in {"idle", "panic"}
                  \/ /\ Running(w)'
                     /\ 2 * i'[w] + (IF pc'[w] = "get" THEN 1 ELSE 0)
                           > 2 * i[w] + (IF pc[w] = "get" THEN 1 ELSE 0)
            /\ op[w] = "status" /\ Steps(w) /\ store'.rv # store.rv =>
                  /\ store'.rv = store.rv + 1
                  /\ MarkOf(store'.ann) = Successor(store.ann)
                  /\ store'.ann = SetAnnotation(store.ann, ELBMarkAnnotation, Successor(store.ann))

\* C9: with two workers running updateServiceStatus on one Service against
\* a server that answers conflict to a stale resourceVersion, under every
\* interleaving each invocation ends (it can always step, and each step ends
\* it or advances its bounded loop), the stored mark never exceeds MaxRetry,
\* and every successful Update stores the successor of the mark the server
\* held just before it ("1" when there was none), the other annotations
\* being those the server held.
C9_ConcurrentIncrements == [](C9_State) /\ [][C9_Step]_vars

\* both workers entered updateServiceStatus on version 0; w1 has stored "1"
\* and returned, and w2, still holding version 0, was answered conflict
C9_Witness ==
    /\ strict
    /\ op["w1"] = "status"
    /\ op["w2"] = "status"
    /\ calls["w1"] = 1
    /\ calls["w2"] = 1
    /\ pc["w1"] = "idle"
    /\ service["w1"].rv = 0
    /\ store.rv = 1
    /\ MarkOf(store.ann) = <<"1">>
    /\ pc["w2"] = "get"
    /\ i["w2"] = 0
    /\ service["w2"].rv = 0

\* C10: from a Service with no mark, whatever the interleaving of
\* invocations of updateServiceStatus and updateServiceMarkIfNeeded and
\* whatever the API answers, with no other writer of the mark, the stored
\* mark is absent or the decimal form of an integer in 0..MaxRetry.
C10_MarkInRange ==
    \/ ~HasMark(store.ann)
    \/ /\ MarkOf(store.ann) \in CountMarks
       /\ ~Atoi(MarkOf(store.ann)).err
       /\ Atoi(MarkOf(store.ann)).n \in 0..MaxRetry

\* the mark has reached "3" and an invocation of updateServiceMarkIfNeeded
\* has been made
C10_Witness ==
    /\ MarkOf(store.ann) = <<"3">>
    /\ \E w \in Workers : op[w] = "mark" /\ calls[w] > 0

\* ------------------------------------------- reading a load balancer call
\* the class annotation of the Service, "" when it carries none
LBClass == Annotation(lbService, ELBClassAnnotation)

\* a load balancer operation has returned
LBRan == lbResult.op # "none"

\* the values of the class annotation that route to a version
SupportedClasses == {"elasticity", "union", "", "performance", "dnat"}

\* the backend that owns a class, "none" when none does
BoundBackend(class) ==
    CASE class = "elasticity"     -> "ELBCloud"
      [] class \in {"union", ""}  -> "ALBCloud"
      [] class = "dnat"           -> "NATCloud"
      [] OTHER                    -> "none"

\* C11: when the class of the Service routes to a version for which no
\* backend is bound (class "performance", version PLB, which NewHWSCloud
\* does not bind), each of the four operations calls no backend and returns
\* no status, exists = false and no error.
C11_UnboundIsNoOp ==
    /\ VersionPLB \notin DOMAIN providers
    /\ (LBRan /\ (LBClass = "performance"
                  \/ (~LBVersion.err /\ LBVersion.version \notin DOMAIN providers)))
          => /\ lbResult.op \in {"GetLoadBalancer", "EnsureLoadBalancer",
                                 "UpdateLoadBalancer", "EnsureLoadBalancerDeleted"}
             /\ lbCalls = <<>>
             /\ lbResult.status = "nil"
             /\ lbResult.exists = FALSE
             /\ lbResult.err = "nil"

\* GetLoadBalancer has returned for a Service of class "performance"
C11_Witness ==
    /\ lbResult.op = "GetLoadBalancer"
    /\ LBClass = "performance"
    /\ LBVersion = [version |-> VersionPLB, err |-> FALSE]
    /\ lbCalls = <<>>
    /\ lbResult.err = "nil"

\* C12: for each of the four operations, a class annotation that is not a
\* supported value makes the operation return the routing error without
\* calling any backend; a class whose backend is bound makes it call the
\* matching operation of exactly that backend once and return what the
\* backend returned.
C12_ErrorOrOneCall ==
    LBRan =>
        /\ LBClass \notin SupportedClasses =>
              /\ lbCalls = <<>>
              /\ lbResult = Returned(lbResult.op, "nil", FALSE, VersionUnknown)
        /\ BoundBackend(LBClass) # "none" =>
              /\ Len(lbCalls) = 1
              /\ lbCalls[1].backend = BoundBackend(LBClass)
              /\ lbCalls[1].op = lbResult.op
              /\ lbResult = Returned(lbResult.op, lbCalls[1].ret.status,
                                     lbCalls[1].ret.exists, lbCalls[1].ret.err)

\* EnsureLoadBalancer has returned the error of the NAT backend
C12_Witness ==
    /\ lbResult.op = "EnsureLoadBalancer"
    /\ LBClass = "dnat"
    /\ Len(lbCalls) = 1
    /\ lbCalls[1].backend = "NATCloud"
    /\ lbCalls[1].ret.err = "backend error"
    /\ lbResult.err = "backend error"

\* C13: getLoadBalancerVersion maps the class annotation, compared exactly:
\* "elasticity" to ELB; "union", "" and no annotation to ALB; "performance"
\* to PLB; "dnat" to NAT; anything else to an error.  The answer is the same
\* whatever else the Service carries, and VersionNotNeedLB never comes
\* without an error.
C13_VersionTable ==
    LBRan =>
        /\ LBVersion.err = (LBClass \notin SupportedClasses)
        /\ LBClass = "elasticity" => LBVersion.version = VersionELB
        /\ LBClass \in {"union", ""} => LBVersion.version = VersionALB
        /\ LBClass = "performance" => LBVersion.version = VersionPLB
        /\ LBClass = "dnat" => LBVersion.version = VersionNAT
        /\ LBVersion.version = VersionNotNeedLB => LBVersion.err

\* a Service of class "Elasticity" that carries other annotations was routed
C13_Witness ==
    /\ LBRan
    /\ LBClass = "Elasticity"
    /\ ELBLBAlgorithm \in DOMAIN lbService
    /\ LBVersion.err

\* ------------------------------------------------ reading the secret cache
Keys(c) == { c[k].key : k \in 1..Len(c) }

\* the key namespace/name of the Secret an event names
EventKey(e) == e.ns \o "/" \o e.name

\* the Secret an add, update or delete event carries
EventObject(e) == [ns |-> e.ns, name |-> e.name, data |-> e.data]

\* all entries but the most recently used
Older(c) == SubSeq(c, 1, Len(c) - 1)

\* the event writes the cache: an add of a Secret of the configured name, or
\* an update of one whose payload differs
Writes(e) ==
    /\ e.name = ConfiguredSecretName
    /\ \/ e.kind = "add"
       \/ e.kind = "update" /\ e.oldData # e.data

\* the key of the n-th namespace
KeyOf(n) == Key(SecretObject(n, ConfiguredSecretName, ""))

\* the state part of C14: at most CacheSize entries, no key twice, and
\* CacheSize + 1 distinct keys inserted one after the other leave the last
\* CacheSize of them
C14_State ==
    /\ Len(lrucache) <= CacheSize
    /\ Cardinality(Keys(lrucache)) = Len(lrucache)
    /\ (/\ events = 2
        /\ event.kind = "add"
        /\ EventKey(event) = KeyOf(CacheSize + 1)
        /\ KeyOf(CacheSize) \in Keys(lrucache)
        /\ Len(lrucache) = CacheSize)
          => Keys(lrucache) = { KeyOf(n) : n \in 2..(CacheSize + 1) }

\* the step part of C14: a read or a write of a key that is present makes it
\* the most recently used and keeps the order of the others; a write of a
\* new key makes it the most recently used and, when the cache is full,
\* removes the least recently used entry and no other
C14_Step ==
    LET e   == event'
        key == EventKey(e)
    IN  /\ ((e.kind = "get" \/ Writes(e)) /\ key \in Keys(lrucache)) =>
              /\ lrucache'[Len(lrucache')].key = key
              /\ Older(lrucache') = Without(lrucache, key)
        /\ (Writes(e) /\ key \notin Keys(lrucache)) =>
              /\ lrucache'[Len(lrucache')].key = key
              /\ Older(lrucache') = IF Len(lrucache) = CacheSize
                                    THEN Tail(lrucache) ELSE lrucache
        /\ (e.kind = "get" /\ key \notin Keys(lrucache)) => lrucache' = lrucache

\* C14: after any sequence of add, update and delete events the cache holds
\* at most 200 entries; an insert of a new key into a full cache removes
\* exactly the least recently used entry, a read and an overwrite counting
\* as a use; 201 distinct keys inserted leave the 200 most recent.
C14_LeastRecentlyUsedEvicted == [](C14_State) /\ [][C14_Step]_vars

\* the full cache has lost the entry of namespace 2 and kept the older entry
\* of namespace 1, which was used
C14_Witness ==
    /\ Len(lrucache) = CacheSize
    /\ event.kind = "add"
    /\ EventKey(event) = KeyOf(CacheSize + 1)
    /\ KeyOf(CacheSize + 1) \in Keys(lrucache)
    /\ KeyOf(1) \in Keys(lrucache)
    /\ KeyOf(2) \notin Keys(lrucache)

\* C15: an update event for a Secret of the configured name whose new Data
\* equals the old Data leaves the cache as it was, keys, values and order,
\* also when the key is not cached; one whose Data differs stores the new
\* object under namespace/name as the most recently used entry.
C15_EqualPayloadSkipped ==
    [][ LET e == event'
        IN  (e.kind = "update" /\ e.name = ConfiguredSecretName) =>
               IF e.oldData = e.data
               THEN lrucache' = lrucache
               ELSE /\ lrucache'[Len(lrucache')] = Entry(EventKey(e), EventObject(e))
                    /\ \A k \in 1..(Len(lrucache') - 1) : lrucache'[k].key # EventKey(e)
      ]_vars

\* an update with equal old and new Data "d2" was handled while the cache
\* holds the Secret of that key with Data "d1" as its oldest entry
C15_Witness ==
    /\ event.kind = "update"
    /\ event.name = ConfiguredSecretName
    /\ event.oldData = "d2"
    /\ event.data = "d2"
    /\ Len(lrucache) = CacheSize - 1
    /\ lrucache[1].key = EventKey(event)
    /\ lrucache[1].value.data = "d1"

\* the namespaces of the cluster
AllNamespaces == { Namespace(n) : n \in 1..(CacheSize + 1) }

\* the entries of a cache, whatever their order
Entries(c) == { c[k] : k \in 1..Len(c) }

\* the state part of C16: every key is namespace/name of the Secret it holds
\* and the name is the configured one
C16_State ==
    /\ \A k \in 1..Len(lrucache) :
          /\ lrucache[k].key = lrucache[k].value.ns \o "/" \o ConfiguredSecretName
          /\ lrucache[k].value.name = ConfiguredSecretName
    /\ { lrucache[k].value.ns : k \in 1..Len(lrucache) } \subseteq AllNamespaces

\* the step part of C16: an add or update of a Secret of another name
\* changes nothing; an add of a Secret of the configured name stores it
\* under namespace/name and changes the value of no other key
C16_Step ==
    LET e == event'
    IN  /\ (e.kind \in {"add", "update"} /\ e.name # ConfiguredSecretName) =>
              lrucache' = lrucache
        /\ (e.kind = "add" /\ e.name = ConfiguredSecretName) =>
              /\ lrucache'[Len(lrucache')] = Entry(EventKey(e), EventObject(e))
              /\ EventKey(e) \notin Keys(Older(lrucache'))
              /\ Entries(Older(lrucache')) \subseteq Entries(lrucache)

\* C16: every key of the cache is namespace/name with the configured name;
\* add and update events for Secrets of another name leave the cache
\* unchanged; an add event of a matching Secret inserts or overwrites
\* exactly the key namespace/name.
C16_OnlyConfiguredName == [](C16_State) /\ [][C16_Step]_vars

\* an add of a Secret of another name in namespace 1 was handled and the
\* cache still holds what the sync put there
C16_Witness ==
    /\ event.kind = "add"
    /\ event.name = OtherName
    /\ events = 1
    /\ lrucache = Synced(CacheSize - 1)

\* the delete event carries a Secret of the configured name, as itself or in
\* a DeletedFinalStateUnknown
DeletedConfigured ==
    /\ event.kind = "delete"
    /\ event.shape \in {"secret", "tombstone"}
    /\ event.name = ConfiguredSecretName

\* C17: after a delete event for a Secret of the configured name the handler
\* has returned and the cache holds the deleted object under namespace/name,
\* as after an add event.
C17_DeleteUpserts ==
    DeletedConfigured =>
        /\ ~crashed
        /\ \E k \in 1..Len(lrucache) :
              lrucache[k] = Entry(EventKey(event), EventObject(event))

\* C18: once a call of DecodeBase64 on a record has returned nil, every
\* later call on it panics and leaves the fields as they are; a call on a
\* record on which no call has returned nil does not panic.
C18_DecodeOnce ==
    [][ decodeCalls' = decodeCalls + 1 =>
           /\ succeeded => (decodeResult' = "panic" /\ secret' = secret)
           /\ ~succeeded => decodeResult' \in {"nil", "error"}
           /\ succeeded' = (succeeded \/ decodeResult' = "nil")
      ]_vars

\* a record was decoded and the call after that panicked
C18_Witness ==
    /\ decodeCalls = 2
    /\ succeeded
    /\ decodeResult = "panic"
    /\ secret.Credential = <<81, 81, 61, 61>>

\* C19: getLBAlgorithm answers for every value of the algorithm annotation:
\* "ROUND_ROBIN", "" and no annotation give RR, "LEAST_CONNECTIONS" gives LC,
\* "SOURCE_IP" gives SRC, anything else gives an error and no algorithm.
C19_AlgorithmTable ==
    algorithm.applied =>
        LET al == IF ELBLBAlgorithm \in DOMAIN lbService
                  THEN lbService[ELBLBAlgorithm] ELSE ""
        IN  algorithm.ret =
               CASE al \in {"ROUND_ROBIN", ""} -> [alg |-> "ROUND_ROBIN", err |-> FALSE]
                 [] al = "LEAST_CONNECTIONS"   -> [alg |-> "LEAST_CONNECTIONS", err |-> FALSE]
                 [] al = "SOURCE_IP"           -> [alg |-> "SOURCE_IP", err |-> FALSE]
                 [] OTHER                      -> [alg |-> "", err |-> TRUE]

\* a Service without the algorithm annotation was parsed
C19_Witness ==
    /\ algorithm.applied
    /\ ELBLBAlgorithm \notin DOMAIN lbService
    /\ algorithm.ret = [alg |-> ELBAlgorithmRR, err |-> FALSE]

\* C20: getHealthCheckFlag answers for every value of the health check flag
\* annotation: "on", "" and no annotation give true, "off" gives false,
\* anything else gives an error.
C20_HealthFlagTable ==
    healthFlag.applied =>
        LET flag == IF ELBHealthCheckFlag \in DOMAIN lbService
                    THEN lbService[ELBHealthCheckFlag] ELSE ""
        IN  /\ flag \in {"on", ""} => healthFlag.ret = [flag |-> TRUE, err |-> FALSE]
            /\ flag = "off" => healthFlag.ret = [flag |-> FALSE, err |-> FALSE]
            /\ flag \notin {"on", "", "off"} => healthFlag.ret.err

\* a Service with the flag "bogus" was parsed
C20_Witness ==
    /\ healthFlag.applied
    /\ ELBHealthCheckFlag \in DOMAIN lbService
    /\ lbService[ELBHealthCheckFlag] = "bogus"
    /\ healthFlag.ret.err

\* C21: GetPersistAutoCreate returns false exactly when the persist-autocreate
\* annotation is absent, empty or the string "false", and true for every
\* other string, "FALSE", "true" and "yes" among them.
C21_PermissiveTruthy ==
    persistAutoCreate.applied =>
        persistAutoCreate.ret =
            ~(\/ ELBPersistAutoCreate \notin DOMAIN lbService
              \/ lbService[ELBPersistAutoCreate] \in {"", "false"})

\* a Service with the annotation "FALSE" was found to persist
C21_Witness ==
    /\ persistAutoCreate.applied
    /\ ELBPersistAutoCreate \in DOMAIN lbService
    /\ lbService[ELBPersistAutoCreate] = "FALSE"
    /\ persistAutoCreate.ret

\* the Node has a Ready condition whose status is true
NodeReadyTrue ==
    \E k \in 1..Len(node.Conditions) :
        node.Conditions[k] = [Type |-> "Ready", Status |-> "True"]

\* C22: CheckNodeHealth reports a Node eligible exactly when it has a Ready
\* condition with status true and is not unschedulable (a Ready condition
\* that is false or unknown, no Ready condition, or a Ready Node that is
\* unschedulable all give false), and it never returns an error.
C22_NodeEligible ==
    nodeHealth.applied =>
        /\ ~nodeHealth.err
        /\ nodeHealth.status = (NodeReadyTrue /\ ~node.Unschedulable)

\* a Ready Node that is unschedulable was found ineligible
C22_Witness ==
    /\ nodeHealth.applied
    /\ NodeReadyTrue
    /\ node.Unschedulable
    /\ ~nodeHealth.status

\* the Pod has a Ready condition whose status is true
PodReadyTrue ==
    \E k \in 1..Len(pod.Conditions) :
        pod.Conditions[k] = [Type |-> "Ready", Status |-> "True"]

\* C23: IsPodActive returns true exactly when the phase of the Pod is neither
\* Succeeded nor Failed, its deletion timestamp is unset and it has a Ready
\* condition with status true; a Pod with a deletion timestamp is never
\* active.
C23_PodActive ==
    podActive.applied =>
        /\ podActive.ret = (/\ pod.Phase \notin {"Succeeded", "Failed"}
                            /\ ~pod.Deleting
                            /\ PodReadyTrue)
        /\ pod.Deleting => ~podActive.ret

\* a running, Ready Pod that is being deleted was found inactive
C23_Witness ==
    /\ podActive.applied
    /\ pod.Phase = "Running"
    /\ pod.Deleting
    /\ PodReadyTrue
    /\ ~podActive.ret

\* ------------------------------------------------------------------ C24
\* an invocation of worker w returns in this step
Returns(w) == pc[w] = "loop" /\ pc'[w] = "idle"

\* While updateServiceMarkIfNeeded has not been called, the k-th invocation
\* of updateServiceStatus that has returned left the mark at "1", "2", "3"
\* for k = 1, 2, 3 with one Update carrying that mark and no warning, and
\* at "3" with one warning and no Update for every k above the ceiling; the
\* Service was written once per invocation up to the ceiling and never after.
C24_State ==
    (calls["w2"] = 0 /\ calls["w1"] > 0 /\ pc["w1"] = "idle") =>
        IF calls["w1"] <= MaxRetry
        THEN /\ MarkOf(store.ann) = << <<"1">>, <<"2">>, <<"3">> >>[calls["w1"]]
             /\ Len(Updates("w1")) = 1
             /\ Updates("w1")[1].ann = store.ann
             /\ Warnings("w1") = <<>>
             /\ store.rv = calls["w1"]
        ELSE /\ MarkOf(store.ann) = <<"3">>
             /\ Updates("w1") = <<>>
             /\ Len(Warnings("w1")) = 1
             /\ store.rv = MaxRetry

\* An invocation of updateServiceStatus that finds the mark "3" returns with
\* one warning, no Update and the Service as it was; an invocation of
\* updateServiceMarkIfNeeded returns with the mark removed or reset to "0",
\* by at most one Update; and an invocation of updateServiceStatus that
\* finds the mark removed or reset returns with the mark "1", persisted by
\* one Update and without a warning.
C24_Step ==
    /\ Returns("w1") =>
          IF MarkOf(store.ann) = <<"3">>
          THEN /\ store' = store
               /\ Updates("w1")' = <<>>
               /\ Len(Warnings("w1")') = 1
          ELSE IF MarkOf(store.ann) \in {<<"absent">>, <<"0">>}
          THEN /\ MarkOf(store'.ann) = <<"1">>
               /\ Len(Updates("w1")') = 1
               /\ Warnings("w1")' = <<>>
               /\ store'.rv = store.rv + 1
          ELSE TRUE
    /\ Returns("w2") =>
          /\ MarkOf(store'.ann) \in {<<"absent">>, <<"0">>}
          /\ Len(Updates("w2")') <= 1
          /\ HasMark(store.ann) => ~HasMark(store'.ann) /\ Len(Updates("w2")') = 1

\* C24: with no other writer and every Update succeeding, successive
\* invocations of updateServiceStatus on a Service without a mark persist
\* "1", "2", "3" in that order with one Update each; the fourth and every
\* later invocation emits one warning, makes no Update and leaves the mark at
\* "3", until updateServiceMarkIfNeeded has succeeded, after which the next
\* updateServiceStatus persists "1" again.
C24_LadderAndReset == [](C24_State) /\ [][C24_Step]_vars

\* Four invocations of updateServiceStatus took the mark to the ceiling, the
\* one invocation of updateServiceMarkIfNeeded then removed it and the fifth
\* invocation of updateServiceStatus has persisted "1": five writes in all.
C24_Witness ==
    /\ calls["w1"] = 5
    /\ calls["w2"] = 1
    /\ pc["w1"] = "idle"
    /\ pc["w2"] = "idle"
    /\ store.rv = 5
    /\ MarkOf(store.ann) = <<"1">>
    /\ Len(Updates("w1")) = 1
    /\ Len(Updates("w2")) = 1
    /\ ~HasMark(Updates("w2")[1].ann)

\* ------------------------------------------------------------------ C25
\* the annotations the invocation of w last observed before its k-th call:
\* those of its latest successful Get, else those the caller passed
LastObserved(w, k) ==
    LET oks == { j \in 1..(k - 1) : log[w][j].call = "Get" /\ log[w][j].ans = "ok" }
    IN  IF oks = {} THEN arg[w].ann
        ELSE log[w][CHOOSE j \in oks : \A h \in oks : h <= j].ann

\* C25: when an Update is answered with conflict and the Get that follows
\* fails, the invocation goes on with the same Service: it does not fault,
\* every Update and Get it makes names the Service the caller passed, and
\* every Update writes the mark computed from the annotations last observed.
C25_SameResourceAfterFailedGet ==
    \A w \in SeqWorkers :
        /\ pc[w] # "panic"
        /\ \A k \in 1..Len(log[w]) :
              log[w][k].call \in {"Update", "Get"} =>
                 /\ log[w][k].key = arg[w].key
                 /\ log[w][k].call = "Update" => log[w][k].seen = LastObserved(w, k)

\* ------------------------------------------------------------------ C26
\* this step handles a delete event whose object is no Secret and holds none
DropsNonSecret ==
    /\ events' = events + 1
    /\ event'.kind = "delete"
    /\ event'.shape \in {"other", "tombstone-other"}

\* C26: a delete event that carries neither a Secret nor a
\* DeletedFinalStateUnknown holding a Secret is dropped: deleteSecret returns
\* without faulting and the cache keeps its keys, values and recency order.
C26_NonSecretDropped ==
    [][DropsNonSecret => lrucache' = lrucache /\ ~crashed']_vars

\* a full cache is as the initial sync left it after a delete event with a
\* DeletedFinalStateUnknown that holds no Secret
C26_Witness ==
    /\ events = 1
    /\ event.kind = "delete"
    /\ event.shape = "tombstone-other"
    /\ ~crashed
    /\ lrucache = Synced(CacheSize - 1)

\* ------------------------------------------------------------------ C27
\* this step handles a delete event that carries a Secret, as itself or in a
\* DeletedFinalStateUnknown
DeletesSecret ==
    /\ events' = events + 1
    /\ event'.kind = "delete"
    /\ event'.shape \in {"secret", "tombstone"}

\* C27: deleteSecret filters on the secret name NewHWSCloud read, as AddFunc
\* does: a delete event handled after NewHWSCloud returned never faults on a
\* nil configuration, and it changes the cache exactly as AddFunc would for
\* the same Secret.
C27_DeleteFiltersAsAdd ==
    [][DeletesSecret =>
          /\ ~crashed'
          /\ lrucache' = IF event'.name = ConfiguredSecretName
                         THEN lruAdd(lrucache, EventKey(event'), EventObject(event'))
                         ELSE lrucache]_vars

\* ------------------------------------------------------------------ C28
\* DecodeBase64 is called in this step on a record no call has decoded
DecodesUndecoded == decodeCalls' = decodeCalls + 1 /\ ~succeeded

\* C28: a call of DecodeBase64 that meets a malformed field returns an error
\* and leaves the record not marked as decoded, with the fields before the
\* malformed one (in the order Credential, AccessKey, SecretKey) replaced by
\* their decoded bytes and the malformed field and those after it as they
\* were; the call after a failed one does not panic and decodes the fields
\* the failed one had replaced once more.
C28_PartialDecode ==
    [][ DecodesUndecoded =>
          LET c == StdDecode(secret.Credential)
              a == StdDecode(secret.AccessKey)
              k == StdDecode(secret.SecretKey)
          IN  /\ (c.err \/ a.err \/ k.err) =>
                    /\ decodeResult' = "error"
                    /\ ~secret'.base64Decoded
                    /\ secret'.Credential = IF c.err THEN secret.Credential ELSE c.bytes
                    /\ secret'.AccessKey = IF c.err \/ a.err THEN secret.AccessKey ELSE a.bytes
                    /\ secret'.SecretKey = secret.SecretKey
              /\ decodeResult = "error" =>
                    /\ decodeResult' # "panic"
                    /\ ~c.err => secret'.Credential = c.bytes
                    /\ ~c.err /\ ~a.err => secret'.AccessKey = a.bytes
      ]_vars

\* two calls failed on the AccessKey "!" of a record whose Credential was
\* "UVE9PQ==": the first left "QQ==" in it, the second decoded that to "A"
C28_Witness ==
    /\ decodeCalls = 2
    /\ decodeResult = "error"
    /\ ~succeeded
    /\ ~secret.base64Decoded
    /\ secret.Credential = <<65>>
    /\ secret.AccessKey = <<33>>

\* ------------------------------------------------------------------ C29
\* Until its first Get the invocation reads the object the caller passed:
\* every Update it makes before any Get was computed from the annotations
\* that object had on entry, whatever the invocation wrote to its copies.
C29_State ==
    \A w \in SeqWorkers :
        \A k \in 1..Len(log[w]) :
            (log[w][k].call = "Update" /\ \A j \in 1..(k - 1) : log[w][j].call = "Update")
                => log[w][k].seen = arg[w].ann

\* from entry to return no step of the invocation changes the caller's object
C29_Step ==
    \A w \in SeqWorkers : pc[w] # "idle" => arg'[w] = arg[w]

\* C29: updateServiceStatus and updateServiceMarkIfNeeded never modify the
\* Service the caller passed: under every sequence of answers of the API
\* server the caller's object has after the call the annotations, mark
\* included, it had before, every change being made to a copy.
C29_CallerObjectUntouched == [](C29_State) /\ [][C29_Step]_vars

\* an invocation has returned after an Update that failed and an Update that
\* stored a mark, and the caller's object still has no mark
C29_Witness ==
    \E w \in SeqWorkers :
        /\ pc[w] = "idle"
        /\ op[w] = "status"
        /\ Len(log[w]) = 2
        /\ Updates(w)[1].ans = "error"
        /\ Updates(w)[2].ans = "ok"
        /\ MarkOf(Updates(w)[2].ann) = <<"1">>
        /\ MarkOf(store.ann) = <<"1">>
        /\ arg[w].key = SvcKey
        /\ ~HasMark(arg[w].ann)

====
